---- MODULE Spec2Model ----
(***************************************************************************)
(* lockbook: two devices of one account, each with a local metadata store, *)
(* and the coordination server's files table.  The server operations are   *)
(* the SQL statements of server/src/file_index_repo.rs; the sync engine    *)
(* (pull, merge, cycle resolution, push, prune) follows the design in      *)
(* spec.md section 4.5 and the expectations of                             *)
(* core/tests/sync_service_cycle_resolution_tests.rs.                      *)
(***************************************************************************)
EXTENDS Integers, Sequences, FiniteSets, TLC

\* ------------------------------------------------------------------ bounds
NumFolders == 3
MaxOps == 3
MaxFiles == 4
MaxCalls == 3
MaxTicks == 1

\* ------------------------------------------------------------- identifiers
Clients == {1, 2}
Root == 0
\* usernames; the two devices belong to the account Owner
Usernames == {1, 2}
Owner == 1
PublicKeys == {1, 2}
Folders == 1 .. NumFolders
DocId == NumFolders + 1
Ids == {Root} \cup Folders \cup {DocId}

\* The name every file has in common use, plus one name both devices may
\* rename to.  A name is [n |-> text, tag |-> 0] or, after the rename policy
\* disambiguated it, [n |-> text, tag |-> id + 1] (" (renamed-<short-id>)").
SharedName == DocId + 1
PlainName(n) == [n |-> n, tag |-> 0]
Tagged(name, id) == [n |-> name.n, tag |-> id + 1]

\* files, docs, clock: the server's files table, its document blobs, its clock
\* local, watermark:   per device, the local store and last_synced_metadata_version
\* binaryDocs:         whether the account's documents have a non-text media type
\* ops:                how many local operations were made
\* lastSync, run, note: history of the syncs since the last local operation
\* accounts:           the server's accounts table, username to public key
\* call:               history of the last request made to the server directly
\* session:            per device, the sync() that is running on its store
\* db, hist:           the local database of a device (the sled tree "files" and
\*                     the table user_info), and the calls made to the repos and
\*                     the crypto service with their results
\* txn:                the transactions open on the server's database: the
\*                     reading of NOW() each began with, the statement it runs
\*                     and what the statement answered
\* index_db:           the files table of index_db, file_id to row
VARIABLES files, docs, clock, local, watermark, binaryDocs, ops,
          lastSync, run, note, accounts, call, session, db, hist, txn, index_db

vars == <<files, docs, clock, local, watermark, binaryDocs, ops,
          lastSync, run, note, accounts, call, session, db, hist, txn, index_db>>

\* ------------------------------------------------------------------ helpers
Max(S) == CHOOSE x \in S : \A y \in S : y <= x

RECURSIVE SetToSeq(_)
SetToSeq(S) ==
    IF S = {} THEN <<>>
    ELSE LET m == CHOOSE x \in S : \A y \in S : x <= y
         IN <<m>> \o SetToSeq(S \ {m})

Without(f, id) == [x \in (DOMAIN f) \ {id} |-> f[x]]
With(f, id, v) == [x \in (DOMAIN f) \cup {id} |-> IF x = id THEN v ELSE f[x]]

\* ------------------------------------------------- client: lockbook_api
\* a client that looks at the status of the response only
lockbook_api_new_account_status_only(status, error_code) ==
    IF status \in 200 .. 299 THEN "Ok"
    ELSE IF status = 401 THEN "InvalidAuth"
    ELSE IF status = 409 THEN "UsernameTaken"
    ELSE "Unspecified"

\* new_account of the client: the status and error_code of the response
lockbook_api_new_account(status, error_code) ==
    IF status \in 200 .. 299 THEN "Ok"
    ELSE IF status = 401 /\ error_code = "invalid_auth" THEN "InvalidAuth"
    ELSE IF status = 401 /\ error_code = "expired_auth" THEN "ExpiredAuth"
    ELSE IF status = 409 /\ error_code = "username_taken" THEN "UsernameTaken"
    ELSE "Unspecified"

\* POST /new-account: the response the server gives for the repo's result
NewAccountResponse(res) ==
    IF res = "Ok" THEN [status |-> 200, error_code |-> "ok"]
    ELSE IF res = "UsernameTaken" THEN [status |-> 409, error_code |-> "username_taken"]
    ELSE [status |-> 500, error_code |-> "internal_error"]

\* ------------------------------------------------- server: file_index_repo
\* the accounts table when the devices' account is the only one
OwnAccount == [u \in {Owner} |-> 1]

\* an INSERT that replaces the public key of a name that is taken
new_account_upsert(accts, username, public_key) ==
    [accounts |-> With(accts, username, public_key), res |-> "Ok"]

\* INSERT INTO accounts: a unique violation is UsernameTaken
new_account(accts, username, public_key) ==
    IF username \in DOMAIN accts THEN [accounts |-> accts, res |-> "UsernameTaken"]
    ELSE [accounts |-> With(accts, username, public_key), res |-> "Ok"]

\* validate without the check of old_metadata_version
FileUpdateResponse_validate_any_version(old, expected_old_metadata_version, expected_is_folder) ==
    IF old.is_folder # expected_is_folder THEN "WrongFileType"
    ELSE IF old.deleted THEN "Deleted"
    ELSE "Ok"

\* validate without the check of old_deleted
FileUpdateResponse_validate_not_deleted(old, expected_old_metadata_version, expected_is_folder) ==
    IF old.is_folder # expected_is_folder THEN "WrongFileType"
    ELSE IF old.metadata_version # expected_old_metadata_version THEN "IncorrectOldVersion"
    ELSE "Ok"

\* validate that tests old_deleted before the file type
FileUpdateResponse_validate_deleted_first(old, expected_old_metadata_version, expected_is_folder) ==
    IF old.deleted THEN "Deleted"
    ELSE IF old.is_folder # expected_is_folder THEN "WrongFileType"
    ELSE IF old.metadata_version # expected_old_metadata_version THEN "IncorrectOldVersion"
    ELSE "Ok"

FileUpdateResponse_validate(old, expected_old_metadata_version, expected_is_folder) ==
    IF old.is_folder # expected_is_folder THEN "WrongFileType"
    ELSE IF old.deleted THEN "Deleted"
    ELSE IF old.metadata_version # expected_old_metadata_version THEN "IncorrectOldVersion"
    ELSE "Ok"

\* a CASE WHEN condition that leaves the file type out
UpdateApplies_any_type(old, old_metadata_version, is_folder) ==
    /\ ~old.deleted
    /\ old.metadata_version = old_metadata_version

\* the CASE WHEN condition shared by the four UPDATE statements
UpdateApplies(old, old_metadata_version, is_folder) ==
    /\ ~old.deleted
    /\ old.metadata_version = old_metadata_version
    /\ old.is_folder = is_folder

\* uk_files_name_parent: no other row with the same parent and name
PathTaken(rows, id, parent, name) ==
    \E o \in (DOMAIN rows) \ {id} : rows[o].parent = parent /\ rows[o].name = name

\* the result of one statement: the table afterwards, the outcome, and the
\* versions the RETURNING clause hands back
Reply(rows, res, ver, oldcv) == [rows |-> rows, res |-> res, ver |-> ver, oldcv |-> oldcv]

\* the INSERT on a table without the constraint fk_files_owner_accounts_name
create_file_any_owner(rows, accts, now, id, parent, is_folder, name, owner) ==
    IF id \in DOMAIN rows THEN Reply(rows, "IdTaken", 0, 0)
    ELSE IF PathTaken(rows, id, parent, name) THEN Reply(rows, "PathTaken", 0, 0)
    ELSE IF parent \notin (DOMAIN rows) \cup {id} THEN Reply(rows, "ParentDoesNotExist", 0, 0)
    ELSE Reply(With(rows, id, [parent |-> parent, name |-> name, is_folder |-> is_folder,
                               deleted |-> FALSE, owner |-> owner,
                               metadata_version |-> now, content_version |-> now]),
               "Ok", now, now)

\* an INSERT that replaces the row of an id that is taken
create_file_replaces_row(rows, accts, now, id, parent, is_folder, name, owner) ==
    IF PathTaken(rows, id, parent, name) THEN Reply(rows, "PathTaken", 0, 0)
    ELSE IF parent \notin (DOMAIN rows) \cup {id} THEN Reply(rows, "ParentDoesNotExist", 0, 0)
    ELSE IF owner \notin DOMAIN accts THEN Reply(rows, "OwnerDoesNotExist", 0, 0)
    ELSE Reply(With(rows, id, [parent |-> parent, name |-> name, is_folder |-> is_folder,
                               deleted |-> FALSE, owner |-> owner,
                               metadata_version |-> now, content_version |-> now]),
               "Ok", now, now)

\* the INSERT and From<PostgresError> for FileError: the unique constraints
\* pk_files and uk_files_name_parent are checked with the insertion, the
\* foreign keys fk_files_parent_files_id and fk_files_owner_accounts_name
\* after it.  The owner column is written here and read by get_updates; no
\* UPDATE statement of the file assigns it.
create_file(rows, accts, now, id, parent, is_folder, name, owner) ==
    IF id \in DOMAIN rows THEN Reply(rows, "IdTaken", 0, 0)
    ELSE IF PathTaken(rows, id, parent, name) THEN Reply(rows, "PathTaken", 0, 0)
    ELSE IF parent \notin (DOMAIN rows) \cup {id} THEN Reply(rows, "ParentDoesNotExist", 0, 0)
    ELSE IF owner \notin DOMAIN accts THEN Reply(rows, "OwnerDoesNotExist", 0, 0)
    ELSE Reply(With(rows, id, [parent |-> parent, name |-> name, is_folder |-> is_folder,
                               deleted |-> FALSE, owner |-> owner,
                               metadata_version |-> now, content_version |-> now]),
               "Ok", now, now)

\* move_file on a table without the constraint uk_files_name_parent
move_file_no_unique_path(rows, now, id, old_metadata_version, is_folder, parent) ==
    IF id \notin DOMAIN rows THEN Reply(rows, "DoesNotExist", 0, 0)
    ELSE LET old == rows[id]
             applies == UpdateApplies(old, old_metadata_version, is_folder)
             new == IF applies
                    THEN [old EXCEPT !.parent = parent, !.metadata_version = now]
                    ELSE old
         IN IF applies /\ parent \notin DOMAIN rows
            THEN Reply(rows, "ParentDoesNotExist", 0, 0)
            ELSE LET v == FileUpdateResponse_validate(old, old_metadata_version, is_folder)
                 IN Reply(With(rows, id, new), v,
                          IF v = "Ok" THEN new.metadata_version ELSE 0, old.content_version)

\* move_file whose UPDATE sets the new version but writes the old parent back
move_file_keeps_parent(rows, now, id, old_metadata_version, is_folder, parent) ==
    IF id \notin DOMAIN rows THEN Reply(rows, "DoesNotExist", 0, 0)
    ELSE LET old == rows[id]
             applies == UpdateApplies(old, old_metadata_version, is_folder)
             new == IF applies THEN [old EXCEPT !.metadata_version = now] ELSE old
             v == FileUpdateResponse_validate(old, old_metadata_version, is_folder)
         IN Reply(With(rows, id, new), v,
                  IF v = "Ok" THEN new.metadata_version ELSE 0, old.content_version)

move_file(rows, now, id, old_metadata_version, is_folder, parent) ==
    IF id \notin DOMAIN rows THEN Reply(rows, "DoesNotExist", 0, 0)
    ELSE LET old == rows[id]
             applies == UpdateApplies(old, old_metadata_version, is_folder)
             new == IF applies
                    THEN [old EXCEPT !.parent = parent, !.metadata_version = now]
                    ELSE old
         IN IF applies /\ PathTaken(rows, id, parent, old.name)
            THEN Reply(rows, "PathTaken", 0, 0)
            ELSE IF applies /\ parent \notin DOMAIN rows
            THEN Reply(rows, "ParentDoesNotExist", 0, 0)
            ELSE LET v == FileUpdateResponse_validate(old, old_metadata_version, is_folder)
                 IN Reply(With(rows, id, new), v,
                          IF v = "Ok" THEN new.metadata_version ELSE 0, old.content_version)

\* rename_file that takes an empty result of the statement as success
rename_file_empty_result_ok(rows, now, id, old_metadata_version, is_folder, name) ==
    IF id \notin DOMAIN rows THEN Reply(rows, "Ok", now, 0)
    ELSE LET old == rows[id]
             applies == UpdateApplies(old, old_metadata_version, is_folder)
             new == IF applies
                    THEN [old EXCEPT !.name = name, !.metadata_version = now]
                    ELSE old
         IN IF applies /\ PathTaken(rows, id, old.parent, name)
            THEN Reply(rows, "PathTaken", 0, 0)
            ELSE LET v == FileUpdateResponse_validate(old, old_metadata_version, is_folder)
                 IN Reply(With(rows, id, new), v,
                          IF v = "Ok" THEN new.metadata_version ELSE 0, old.content_version)

\* rename_file whose UPDATE sets the new version but writes the old name back
rename_file_keeps_name(rows, now, id, old_metadata_version, is_folder, name) ==
    IF id \notin DOMAIN rows THEN Reply(rows, "DoesNotExist", 0, 0)
    ELSE LET old == rows[id]
             applies == UpdateApplies(old, old_metadata_version, is_folder)
             new == IF applies THEN [old EXCEPT !.metadata_version = now] ELSE old
             v == FileUpdateResponse_validate(old, old_metadata_version, is_folder)
         IN Reply(With(rows, id, new), v,
                  IF v = "Ok" THEN new.metadata_version ELSE 0, old.content_version)

\* rename_file on a table without the constraint uk_files_name_parent
rename_file_no_unique_path(rows, now, id, old_metadata_version, is_folder, name) ==
    IF id \notin DOMAIN rows THEN Reply(rows, "DoesNotExist", 0, 0)
    ELSE LET old == rows[id]
             applies == UpdateApplies(old, old_metadata_version, is_folder)
             new == IF applies
                    THEN [old EXCEPT !.name = name, !.metadata_version = now]
                    ELSE old
             v == FileUpdateResponse_validate(old, old_metadata_version, is_folder)
         IN Reply(With(rows, id, new), v,
                  IF v = "Ok" THEN new.metadata_version ELSE 0, old.content_version)

rename_file(rows, now, id, old_metadata_version, is_folder, name) ==
    IF id \notin DOMAIN rows THEN Reply(rows, "DoesNotExist", 0, 0)
    ELSE LET old == rows[id]
             applies == UpdateApplies(old, old_metadata_version, is_folder)
             new == IF applies
                    THEN [old EXCEPT !.name = name, !.metadata_version = now]
                    ELSE old
         IN IF applies /\ PathTaken(rows, id, old.parent, name)
            THEN Reply(rows, "PathTaken", 0, 0)
            ELSE LET v == FileUpdateResponse_validate(old, old_metadata_version, is_folder)
                 IN Reply(With(rows, id, new), v,
                          IF v = "Ok" THEN new.metadata_version ELSE 0, old.content_version)

\* delete_file whose UPDATE sets the new version but leaves deleted as it was
delete_file_keeps_row(rows, now, id, old_metadata_version, is_folder) ==
    IF id \notin DOMAIN rows THEN Reply(rows, "DoesNotExist", 0, 0)
    ELSE LET old == rows[id]
             applies == UpdateApplies(old, old_metadata_version, is_folder)
             new == IF applies THEN [old EXCEPT !.metadata_version = now] ELSE old
             v == FileUpdateResponse_validate(old, old_metadata_version, is_folder)
         IN Reply(With(rows, id, new), v,
                  IF v = "Ok" THEN new.metadata_version ELSE 0, old.content_version)

\* delete_file whose UPDATE sets deleted but leaves metadata_version as it was
delete_file_keeps_version(rows, now, id, old_metadata_version, is_folder) ==
    IF id \notin DOMAIN rows THEN Reply(rows, "DoesNotExist", 0, 0)
    ELSE LET old == rows[id]
             applies == UpdateApplies(old, old_metadata_version, is_folder)
             new == IF applies THEN [old EXCEPT !.deleted = TRUE] ELSE old
             v == FileUpdateResponse_validate(old, old_metadata_version, is_folder)
         IN Reply(With(rows, id, new), v,
                  IF v = "Ok" THEN new.metadata_version ELSE 0, old.content_version)

delete_file(rows, now, id, old_metadata_version, is_folder) ==
    IF id \notin DOMAIN rows THEN Reply(rows, "DoesNotExist", 0, 0)
    ELSE LET old == rows[id]
             applies == UpdateApplies(old, old_metadata_version, is_folder)
             new == IF applies
                    THEN [old EXCEPT !.deleted = TRUE, !.metadata_version = now]
                    ELSE old
             v == FileUpdateResponse_validate(old, old_metadata_version, is_folder)
         IN Reply(With(rows, id, new), v,
                  IF v = "Ok" THEN new.metadata_version ELSE 0, old.content_version)

\* change_document_content_version whose UPDATE leaves content_version alone
change_document_content_version_metadata_only(rows, now, id, old_metadata_version) ==
    IF id \notin DOMAIN rows THEN Reply(rows, "DoesNotExist", 0, 0)
    ELSE LET old == rows[id]
             applies == UpdateApplies(old, old_metadata_version, FALSE)
             new == IF applies THEN [old EXCEPT !.metadata_version = now] ELSE old
             v == FileUpdateResponse_validate(old, old_metadata_version, FALSE)
         IN Reply(With(rows, id, new), v,
                  IF v = "Ok" THEN new.metadata_version ELSE 0, old.content_version)

\* change_document_content_version that passes is_folder = true to the statement
change_document_content_version_as_folder(rows, now, id, old_metadata_version) ==
    IF id \notin DOMAIN rows THEN Reply(rows, "DoesNotExist", 0, 0)
    ELSE LET old == rows[id]
             applies == UpdateApplies(old, old_metadata_version, TRUE)
             new == IF applies
                    THEN [old EXCEPT !.metadata_version = now, !.content_version = now]
                    ELSE old
             v == FileUpdateResponse_validate(old, old_metadata_version, TRUE)
         IN Reply(With(rows, id, new), v,
                  IF v = "Ok" THEN new.metadata_version ELSE 0, old.content_version)

change_document_content_version(rows, now, id, old_metadata_version) ==
    IF id \notin DOMAIN rows THEN Reply(rows, "DoesNotExist", 0, 0)
    ELSE LET old == rows[id]
             applies == UpdateApplies(old, old_metadata_version, FALSE)
             new == IF applies
                    THEN [old EXCEPT !.metadata_version = now, !.content_version = now]
                    ELSE old
             v == FileUpdateResponse_validate(old, old_metadata_version, FALSE)
         IN Reply(With(rows, id, new), v,
                  IF v = "Ok" THEN new.metadata_version ELSE 0, old.content_version)

\* get_updates that leaves the deleted rows out
get_updates_live_only(rows, username, metadata_version) ==
    {id \in DOMAIN rows : /\ rows[id].owner = username
                          /\ rows[id].metadata_version > metadata_version
                          /\ ~rows[id].deleted}

\* get_updates with metadata_version >= $2
get_updates_inclusive(rows, username, metadata_version) ==
    {id \in DOMAIN rows : /\ rows[id].owner = username
                          /\ rows[id].metadata_version >= metadata_version}

\* get_updates without the owner in its WHERE clause
get_updates_any_owner(rows, username, metadata_version) ==
    {id \in DOMAIN rows : rows[id].metadata_version > metadata_version}

\* WHERE owner = $1 AND metadata_version > $2
get_updates(rows, username, metadata_version) ==
    {id \in DOMAIN rows : /\ rows[id].owner = username
                          /\ rows[id].metadata_version > metadata_version}

\* -------------------------------------------------- client: local metadata
\* a local entry: the metadata as last received from the server (versions and
\* the pre-edit copy bparent/bname/bcontent), the current values, and the four
\* local-only flags
FromServer(r, content) ==
    [parent |-> r.parent, name |-> r.name, is_folder |-> r.is_folder,
     content |-> content,
     metadata_version |-> r.metadata_version, content_version |-> r.content_version,
     new_locally |-> FALSE, metadata_edited_locally |-> FALSE,
     content_edited_locally |-> FALSE, deleted_locally |-> FALSE,
     bparent |-> r.parent, bname |-> r.name, bcontent |-> content]

NewLocalFile(parent, name, is_folder, content) ==
    [parent |-> parent, name |-> name, is_folder |-> is_folder, content |-> content,
     metadata_version |-> 0, content_version |-> 0,
     new_locally |-> TRUE, metadata_edited_locally |-> FALSE,
     content_edited_locally |-> FALSE, deleted_locally |-> FALSE,
     bparent |-> parent, bname |-> name, bcontent |-> content]

Dirty(l) ==
    l.new_locally \/ l.metadata_edited_locally \/ l.content_edited_locally
        \/ l.deleted_locally

\* ---------------------------------------------------------------- tree model
\* the ids met when following parent pointers from id, id itself excluded,
\* until the root, a missing entry or the fuel runs out
RECURSIVE AncestorsFrom(_, _, _)
AncestorsFrom(L, id, fuel) ==
    IF fuel = 0 \/ id \notin DOMAIN L \/ L[id].parent = id THEN {}
    ELSE {L[id].parent} \cup AncestorsFrom(L, L[id].parent, fuel - 1)

ancestors(L, id) == AncestorsFrom(L, id, Cardinality(DOMAIN L))

descendants(L, id) == {d \in DOMAIN L : id \in ancestors(L, d)}

InCycle(L, id) == id \in ancestors(L, id)

\* not deleted, and every ancestor up to the root is present and not deleted
RECURSIVE AliveFrom(_, _, _)
AliveFrom(L, id, fuel) ==
    /\ id \in DOMAIN L
    /\ ~L[id].deleted_locally
    /\ \/ L[id].parent = id
       \/ fuel > 0 /\ AliveFrom(L, L[id].parent, fuel - 1)

Alive(L, id) == AliveFrom(L, id, Cardinality(DOMAIN L))

LiveIds(L) == {id \in DOMAIN L : Alive(L, id)}

\* a live entry other than id with this parent and name
NameTakenLocally(L, id, parent, name) ==
    \E o \in LiveIds(L) \ {id} : L[o].parent = parent /\ L[o].name = name /\ o # parent

\* invariants 1-3 of the data model on the entries of one local store
validate(L) ==
    /\ Cardinality({id \in DOMAIN L : L[id].parent = id}) = 1
    /\ \A id \in DOMAIN L : L[id].parent \in DOMAIN L
    /\ \A id \in DOMAIN L : ~InCycle(L, id)
    /\ \A id \in DOMAIN L : L[id].parent = id
           \/ \E a \in ancestors(L, id) : L[a].parent = a
    /\ \A id \in DOMAIN L : L[L[id].parent].is_folder
    /\ \A x, y \in LiveIds(L) :
           (x # y /\ L[x].parent = L[y].parent /\ x # L[x].parent /\ y # L[y].parent)
               => L[x].name # L[y].name

\* --------------------------------------------------------- sync: pull, merge
\* three-way merge of text documents, a document being its set of lines: a line
\* is kept when both sides have it or when one side added it to the ancestor
Merge3(base, mine, theirs) ==
    (mine \cap theirs) \cup (mine \ base) \cup (theirs \ base)

\* both devices changed the content since the common ancestor
ContentConflict(l, r) ==
    l.content_edited_locally /\ r.content_version > l.content_version

\* Phase A on one remote file that has a dirty local copy, Phase B per field; a
\* file the server holds is no PushNewFile
MergeFile(l, r, rcontent, binary) ==
    [l EXCEPT
       !.parent = IF l.parent # l.bparent THEN l.parent ELSE r.parent,
       !.bparent = r.parent,
       !.name = IF l.name # l.bname THEN l.name ELSE r.name,
       !.bname = r.name,
       !.content = IF ~l.content_edited_locally THEN rcontent
                   ELSE IF ContentConflict(l, r) /\ ~binary
                        THEN Merge3(l.bcontent, l.content, rcontent)
                        ELSE l.content,
       !.bcontent = rcontent,
       !.metadata_version = r.metadata_version,
       !.content_version = r.content_version,
       !.new_locally = FALSE]

\* the sibling that keeps the server's version of a binary document:
\* "<name>.conflict-<ts>", the stamp told apart by the sibling's fresh id
ConflictName(name, sid) == [n |-> name.n, tag |-> 0 - sid]

IsConflictName(name) == name.tag < 0

\* Phase A: the local tree after the server's updates upd were taken in
Pulled(L, rows, blobs, upd, binary, top) ==
    LET gone == {id \in upd : rows[id].deleted}
        kept == (DOMAIN L) \ gone
        fresh == (upd \ gone) \ DOMAIN L
        clash == SetToSeq({id \in kept \cap upd :
                     ~L[id].is_folder /\ binary /\ ContentConflict(L[id], rows[id])})
        sibl == {top + i : i \in 1 .. Len(clash)}
    IN [id \in kept \cup fresh \cup sibl |->
          IF id \in sibl
          THEN LET d == clash[id - top]
               IN NewLocalFile(rows[d].parent, ConflictName(rows[d].name, id), FALSE, blobs[d])
          ELSE IF id \notin upd THEN L[id]
          ELSE IF id \in fresh \/ ~Dirty(L[id]) THEN FromServer(rows[id], blobs[id])
          ELSE MergeFile(L[id], rows[id], blobs[id], binary)]

\* ------------------------------------------------------ sync: cycle resolution
\* the files on a parent cycle of the staged tree whose parent was changed
\* locally
LocalMovesInCycles(L) ==
    {id \in DOMAIN L : InCycle(L, id) /\ L[id].parent # L[id].bparent}

\* cycle resolution that reverts one local move at a time, the one of the
\* lowest id, until no cycle is left
RECURSIVE ResolveCycles_one_at_a_time(_)
ResolveCycles_one_at_a_time(L) ==
    LET m == LocalMovesInCycles(L)
        x == CHOOSE id \in m : \A o \in m : id <= o
    IN IF m = {} THEN L
       ELSE ResolveCycles_one_at_a_time([L EXCEPT ![x].parent = L[x].bparent])

\* cycle resolution that puts every file on a cycle, and every file below one,
\* directly under the root
ResolveCycles_to_root(L) ==
    [id \in DOMAIN L |->
        IF id # Root /\ (InCycle(L, id) \/ \E a \in ancestors(L, id) : InCycle(L, a))
        THEN [L[id] EXCEPT !.parent = Root] ELSE L[id]]

\* revert every local move that lies on a cycle to the remote-accepted parent,
\* and again while the reverts close another cycle
RECURSIVE ResolveCycles(_)
ResolveCycles(L) ==
    LET m == LocalMovesInCycles(L)
    IN IF m = {} THEN L
       ELSE ResolveCycles([id \in DOMAIN L |->
                IF id \in m THEN [L[id] EXCEPT !.parent = L[id].bparent] ELSE L[id]])

\* ------------------------------------------------------------------ sync: push
\* P is the state a push works on: the server's table and blobs, the server
\* clock, and the local tree.  Every RPC is answered at a later clock value.
PushState(rows, blobs, now, L) == [rows |-> rows, blobs |-> blobs, now |-> now, L |-> L]

\* the local entry after the server answered Ok with a new version: the work
\* unit is one transaction of the store, which records the version and what
\* the server now holds of the entry
Acked(l, ver) == [l EXCEPT !.metadata_version = ver]

\* PushNewFile: the server's answer r to create_file under the name nm, at
\* clock value t
PushCreateDone(P, id, l, nm, r, t) ==
    IF r.res = "Ok"
    THEN PushState(r.rows, With(P.blobs, id, l.content), t,
                   With(P.L, id, [l EXCEPT !.name = nm, !.new_locally = FALSE,
                                           !.metadata_version = r.ver,
                                           !.content_version = r.ver,
                                           !.content_edited_locally = FALSE,
                                           !.bparent = l.parent, !.bname = nm,
                                           !.bcontent = l.content]))
    ELSE PushState(P.rows, P.blobs, t, P.L)

\* a taken path is answered by the rename policy and one retry
PushCreateRetry(P, id, l, r1) ==
    IF r1.res = "PathTaken"
    THEN PushCreateDone(P, id, l, Tagged(l.name, id),
                        create_file(P.rows, OwnAccount, P.now + 2, id, l.parent,
                                    l.is_folder, Tagged(l.name, id), Owner),
                        P.now + 2)
    ELSE PushCreateDone(P, id, l, l.name, r1, P.now + 1)

PushCreate(P, id, l) ==
    PushCreateRetry(P, id, l,
                    create_file(P.rows, OwnAccount, P.now + 1, id, l.parent, l.is_folder,
                                l.name, Owner))

\* PushMetadata, the name: the server's answer r to rename_file
PushRenameDone(P, id, l, nm, r, t) ==
    IF r.res = "Ok"
    THEN PushState(r.rows, P.blobs, t,
                   With(P.L, id, [Acked(l, r.ver) EXCEPT !.name = nm, !.bname = nm]))
    ELSE PushState(P.rows, P.blobs, t, P.L)

\* a taken path is answered by the rename policy and one retry
PushRenameRetry(P, id, l, r1) ==
    IF r1.res = "PathTaken"
    THEN PushRenameDone(P, id, l, Tagged(l.name, id),
                        rename_file(P.rows, P.now + 2, id, l.metadata_version, l.is_folder,
                                    Tagged(l.name, id)),
                        P.now + 2)
    ELSE PushRenameDone(P, id, l, l.name, r1, P.now + 1)

PushRename(P, id, l) ==
    IF l.name = P.rows[id].name THEN P
    ELSE PushRenameRetry(P, id, l,
                         rename_file(P.rows, P.now + 1, id, l.metadata_version, l.is_folder,
                                     l.name))

\* PushMetadata, the parent: on a taken path the file was renamed by the
\* policy (answer r2) and is moved under its new version (answer r3)
PushMoveRenamed(P, id, l, nm, r2, r3) ==
    IF r2.res = "Ok" /\ r3.res = "Ok"
    THEN PushState(r3.rows, P.blobs, P.now + 3,
                   With(P.L, id, [Acked(l, r3.ver) EXCEPT !.name = nm, !.bname = nm,
                                                          !.bparent = l.parent]))
    ELSE PushState(P.rows, P.blobs, P.now + 1, P.L)

PushMoveRetry(P, id, l, nm, r2) ==
    PushMoveRenamed(P, id, l, nm, r2,
                    move_file(r2.rows, P.now + 3, id, r2.ver, l.is_folder, l.parent))

\* the server's answer r1 to move_file
PushMoveDone(P, id, l, r1) ==
    IF r1.res = "Ok"
    THEN PushState(r1.rows, P.blobs, P.now + 1,
                   With(P.L, id, [Acked(l, r1.ver) EXCEPT !.bparent = l.parent]))
    ELSE IF r1.res = "PathTaken"
    THEN PushMoveRetry(P, id, l, Tagged(l.name, id),
                       rename_file(P.rows, P.now + 2, id, l.metadata_version, l.is_folder,
                                   Tagged(l.name, id)))
    ELSE PushState(P.rows, P.blobs, P.now + 1, P.L)

PushMove(P, id, l) ==
    IF l.parent = P.rows[id].parent THEN P
    ELSE PushMoveDone(P, id, l,
                      move_file(P.rows, P.now + 1, id, l.metadata_version, l.is_folder,
                                l.parent))

\* PushFileContent / PullMergePush: the new version, then the blob
PushContentDone(P, id, l, r) ==
    IF r.res = "Ok"
    THEN PushState(r.rows, With(P.blobs, id, l.content), P.now + 1,
                   With(P.L, id, [Acked(l, r.ver) EXCEPT
                                      !.content_version = r.ver,
                                      !.content_edited_locally = FALSE,
                                      !.bcontent = l.content]))
    ELSE PushState(P.rows, P.blobs, P.now + 1, P.L)

\* a push that leaves the edited documents alone
PushContent_skipped(P, id, l) == P

PushContent(P, id, l) ==
    IF ~l.content_edited_locally THEN P
    ELSE PushContentDone(P, id, l,
                         change_document_content_version(P.rows, P.now + 1, id,
                                                         l.metadata_version))

\* PushDelete of an entry that is deleted or lies under a deleted folder; the
\* entry is pruned once the server acknowledged (or never knew the file)
PushDeleteDone(P, id, r) ==
    IF r.res = "Ok"
    THEN PushState(r.rows, P.blobs, P.now + 1, Without(P.L, id))
    ELSE PushState(P.rows, P.blobs, P.now + 1, P.L)

PushDelete(P, id, l) ==
    IF id \notin DOMAIN P.rows \/ P.rows[id].deleted
    THEN PushState(P.rows, P.blobs, P.now, Without(P.L, id))
    ELSE PushDeleteDone(P, id,
                        delete_file(P.rows, P.now + 1, id, l.metadata_version, l.is_folder))

\* one work unit
PushOne(P, kind, id) ==
    CASE kind = "create" -> PushCreate(P, id, P.L[id])
      [] kind = "rename" -> PushRename(P, id, P.L[id])
      [] kind = "move" -> PushMove(P, id, P.L[id])
      [] kind = "content" -> PushContent(P, id, P.L[id])
      [] kind = "delete" -> PushDelete(P, id, P.L[id])

RECURSIVE PushEach(_, _)
PushEach(P, work) ==
    IF work = <<>> THEN P
    ELSE PushEach(PushOne(P, Head(work).kind, Head(work).id), Tail(work))

Units(kind, ids) == [i \in 1 .. Len(ids) |-> [kind |-> kind, id |-> ids[i]]]

\* an order of Phase C that sends the deletes first
WorkOrder_deletes_first(new, old, dead) ==
    Units("delete", dead) \o Units("create", new) \o Units("rename", old)
        \o Units("move", old) \o Units("content", old)

\* the work units of Phase C in the order of section 4.4: new files, names,
\* moves, content, deletes last
WorkOrder(new, old, dead) ==
    Units("create", new) \o Units("rename", old) \o Units("move", old)
        \o Units("content", old) \o Units("delete", dead)

\* the new files whose parent is not itself waiting to be created
Ready(L, S) == {x \in S : L[x].parent \notin S \ {x}}

Least(S) == CHOOSE x \in S : \A y \in S : x <= y

\* folder creations before their children
RECURSIVE ParentsFirst(_, _)
ParentsFirst(L, S) ==
    IF S = {} THEN <<>>
    ELSE IF Ready(L, S) = {} THEN SetToSeq(S)
    ELSE <<Least(Ready(L, S))>> \o ParentsFirst(L, S \ {Least(Ready(L, S))})

\* the deleted entries none of whose children is itself waiting to be deleted
Childless(L, S) == {x \in S : \A y \in S \ {x} : L[y].parent # x}

\* a deleted folder after the entries below it: the store never holds an entry
\* whose parent was pruned
RECURSIVE ChildrenFirst(_, _)
ChildrenFirst(L, S) ==
    IF S = {} THEN <<>>
    ELSE IF Childless(L, S) = {} THEN SetToSeq(S)
    ELSE <<Least(Childless(L, S))>> \o ChildrenFirst(L, S \ {Least(Childless(L, S))})

PushOrdered(P, live) ==
    WorkOrder(ParentsFirst(P.L, {id \in live : P.L[id].new_locally}),
              SetToSeq({id \in live : ~P.L[id].new_locally}),
              ChildrenFirst(P.L, (DOMAIN P.L) \ live))

Push(P) == PushEach(P, PushOrdered(P, LiveIds(P.L)))

\* the flags of every entry the server holds as the local store has it are
\* cleared, and the pre-edit copy becomes the pushed state
CommittedEntry(rows, id, l) ==
    IF /\ id \in DOMAIN rows
       /\ rows[id].parent = l.parent /\ rows[id].name = l.name
       /\ rows[id].metadata_version = l.metadata_version
       /\ ~l.content_edited_locally /\ ~l.deleted_locally /\ ~l.new_locally
    THEN [l EXCEPT !.metadata_edited_locally = FALSE,
                   !.bparent = l.parent, !.bname = l.name,
                   !.bcontent = l.content]
    ELSE l

Committed(P) == [id \in DOMAIN P.L |-> CommittedEntry(P.rows, id, P.L[id])]

\* the outcome of a sync whose push ended in P
Synced(P, since) ==
    [rows |-> P.rows, blobs |-> P.blobs, now |-> P.now, L |-> Committed(P),
     since |-> Max({since} \cup {P.rows[id].metadata_version : id \in DOMAIN P.rows})]

\* a staged tree in which the files under a deleted folder are marked deleted
\* before the cycles are resolved
DeletedByAccess(L) ==
    [id \in DOMAIN L |-> IF Alive(L, id) THEN L[id] ELSE [L[id] EXCEPT !.deleted_locally = TRUE]]

Staged_deletes_first(rows, blobs, L, since, binary, top) ==
    ResolveCycles(DeletedByAccess(
        Pulled(L, rows, blobs, get_updates(rows, Owner, since), binary, top)))

\* Phase A and Phase B: the staged tree; cycles are resolved before the files
\* under a deleted folder are taken as deleted
Staged(rows, blobs, L, since, binary, top) ==
    ResolveCycles(Pulled(L, rows, blobs, get_updates(rows, Owner, since), binary, top))

\* one sync() of a device: Phase A, Phase B, Phase C, commit
sync(rows, blobs, now, L, since, binary, top) ==
    Synced(Push(PushState(rows, blobs, now, Staged(rows, blobs, L, since, binary, top))),
           since)

\* work the next sync would have: local entries with pending intent, and
\* server files newer than the watermark
local_work(L) == {id \in DOMAIN L : Dirty(L[id])}
server_work(rows, since) == get_updates(rows, Owner, since)

\* ------------------------------------------------------------ the two devices
Lines == Clients
Contents == SUBSET Lines

\* the account holds either the folders alone or one folder and one document
Universes == {Folders, {1, DocId}}

InitRow(id) ==
    [parent |-> Root, name |-> PlainName(id), is_folder |-> id # DocId,
     deleted |-> FALSE, owner |-> Owner,
     metadata_version |-> id + 1, content_version |-> id + 1]

\* no transaction is open
NoTxn == <<>>

\* the files table of index_db with no row
NoFiles == <<>>

NoRun == [step |-> 0, first |-> 0, common |-> FALSE, snap |-> <<>>]
NoNote == [pulled |-> <<>>, staged |-> <<>>]

\* a request to the server: the operation and its arguments
Request(op, id, old_metadata_version, is_folder, parent, name, owner) ==
    [op |-> op, id |-> id, old_metadata_version |-> old_metadata_version,
     is_folder |-> is_folder, parent |-> parent, name |-> name, owner |-> owner]

NoCall == [n |-> 0, req |-> Request("", 0, 0, FALSE, 0, PlainName(0), 0), res |-> "",
           again |-> FALSE]

\* no sync() is running on the store: the phase, the work units left and sent,
\* the watermark the pull reached, the restarts made, the reply to the last
\* sync() call, the sync() calls that were started, and whether the server
\* applied a request of the store whose answer was lost and which no pull has
\* brought back since
NoSession ==
    [phase |-> "idle", work |-> <<>>, sent |-> <<>>, mark |-> 0, restarts |-> 0,
     reply |-> "", calls |-> 0, doubt |-> FALSE]

\* connect_to_db on a new path: no file, and the schema with no account row
EmptyDb == [files |-> <<>>, user_info |-> <<>>]

\* c1 created the files below the root and synced, c2 cloned the account and
\* synced
Init ==
    \E u \in Universes :
        /\ files = [id \in {Root} \cup u |-> InitRow(id)]
        /\ docs = [id \in {Root} \cup u |-> {}]
        /\ clock = DocId + 1
        /\ local = [c \in Clients |-> [id \in {Root} \cup u |-> FromServer(InitRow(id), {})]]
        /\ watermark = [c \in Clients |-> DocId + 1]
        /\ binaryDocs \in (IF DocId \in u THEN BOOLEAN ELSE {FALSE})
        /\ ops = 0
        /\ lastSync = 0
        /\ run = NoRun
        /\ note = NoNote
        /\ accounts = OwnAccount
        /\ call = NoCall
        /\ session = [c \in Clients |-> NoSession]
        /\ db = EmptyDb
        /\ hist = <<>>
        /\ txn = NoTxn
        /\ index_db = NoFiles

\* an id no store and no table has used: a new uuid
TopOf(rows, locals) == Max(DOMAIN rows \cup UNION {DOMAIN locals[c] : c \in Clients})

TopId == TopOf(files, local)

\* the server and both devices as one record, and one sync() of device c on it
World(rows, blobs, now, locals, marks) ==
    [files |-> rows, docs |-> blobs, clock |-> now, local |-> locals, watermark |-> marks]

AfterSync(W, c, s) ==
    World(s.rows, s.blobs, s.now, [W.local EXCEPT ![c] = s.L],
          [W.watermark EXCEPT ![c] = s.since])

SyncStep(W, c, binary) ==
    AfterSync(W, c, sync(W.files, W.docs, W.clock, W.local[c], W.watermark[c], binary,
                         TopOf(W.files, W.local)))

LocalChange(c, L) ==
    /\ ops < MaxOps
    /\ local' = [local EXCEPT ![c] = L]
    /\ ops' = ops + 1
    /\ lastSync' = 0
    /\ run' = NoRun
    /\ note' = NoNote
    /\ UNCHANGED <<files, docs, clock, watermark, binaryDocs, accounts, call, session, db,
                   hist, txn, index_db>>

\* create_at_path: a new folder under a live folder, new_locally set; the
\* store holds at most MaxFiles entries
Create(c) ==
    \E p \in LiveIds(local[c]) :
        LET L == local[c]
            id == TopId + 1
        IN /\ Cardinality(DOMAIN L) < MaxFiles
           /\ L[p].is_folder
           /\ ~NameTakenLocally(L, id, p, PlainName(SharedName))
           /\ LocalChange(c, With(L, id, NewLocalFile(p, PlainName(SharedName), TRUE, {})))

\* move: the target is a live folder that is neither the file nor below it,
\* and holds no live file of that name
Move(c) ==
    \E id \in LiveIds(local[c]) \ {Root}, p \in LiveIds(local[c]) :
        LET L == local[c]
        IN /\ L[p].is_folder
           /\ p # id /\ p # L[id].parent
           /\ p \notin descendants(L, id)
           /\ ~NameTakenLocally(L, id, p, L[id].name)
           /\ LocalChange(c, [L EXCEPT ![id].parent = p,
                                       ![id].metadata_edited_locally = TRUE])

Rename(c) ==
    \E id \in LiveIds(local[c]) \ {Root} :
        LET L == local[c]
        IN /\ L[id].name # PlainName(SharedName)
           /\ ~NameTakenLocally(L, id, L[id].parent, PlainName(SharedName))
           /\ LocalChange(c, [L EXCEPT ![id].name = PlainName(SharedName),
                                       ![id].metadata_edited_locally = TRUE])

Delete(c) ==
    \E id \in LiveIds(local[c]) \ {Root} :
        /\ LocalChange(c, [local[c] EXCEPT ![id].deleted_locally = TRUE])

\* edit: the new content is stored and content_edited_locally is set
Write(c) ==
    \E id \in LiveIds(local[c]), v \in Contents :
        LET L == local[c]
        IN /\ ~L[id].is_folder
           /\ v # L[id].content
           /\ LocalChange(c, [L EXCEPT ![id].content = v,
                                       ![id].content_edited_locally = TRUE])

\* both devices have received everything the server holds
CommonBase == \A c \in Clients : server_work(files, watermark[c]) = {}

\* the history of a sync of device c: the syncs that alternate between the
\* devices since the last local operation are counted; a run that starts when
\* both devices hold everything the server has keeps the state it started from
\* and the tree its second sync staged before and after cycle resolution
NextRun(c, starts) ==
    IF lastSync = c THEN run
    ELSE IF starts
    THEN [step |-> 1, first |-> c, common |-> CommonBase,
          snap |-> IF CommonBase THEN World(files, docs, clock, local, watermark)
                   ELSE <<>>]
    ELSE [run EXCEPT !.step = @ + 1]

Noted(pulled) == [pulled |-> pulled, staged |-> ResolveCycles(pulled)]

NextNote(c, starts) ==
    IF lastSync = c THEN note
    ELSE IF starts \/ ~run.common THEN NoNote
    ELSE IF run.step = 1
    THEN Noted(Pulled(local[c], files, docs, get_updates(files, Owner, watermark[c]),
                      binaryDocs, TopId))
    ELSE note

SyncTo(c, W, starts) ==
    /\ files' = W.files
    /\ docs' = W.docs
    /\ clock' = W.clock
    /\ local' = W.local
    /\ watermark' = W.watermark
    /\ lastSync' = c
    /\ run' = NextRun(c, starts)
    /\ note' = NextNote(c, starts)
    /\ UNCHANGED <<binaryDocs, ops, accounts, call, session, db, hist, txn, index_db>>

\* sync() of device c
Sync(c) ==
    SyncTo(c, SyncStep(World(files, docs, clock, local, watermark), c, binaryDocs),
           lastSync = 0 \/ (lastSync # c /\ run.step = 4))

Next ==
    \E c \in Clients :
        Create(c) \/ Move(c) \/ Rename(c) \/ Delete(c) \/ Write(c) \/ Sync(c)

Spec == Init /\ [][Next]_vars

\* the tree a device shows: parent, name and content of every entry
Tree(L) == [id \in DOMAIN L |->
              [parent |-> L[id].parent, name |-> L[id].name, content |-> L[id].content,
               deleted |-> L[id].deleted_locally]]

ServerTree == [id \in {x \in DOMAIN files : ~files[x].deleted} |->
                 [parent |-> files[id].parent, name |-> files[id].name,
                  content |-> docs[id], deleted |-> FALSE]]

\* ------------------------------------------------------------------ claims
Other(c) == CHOOSE d \in Clients : d # c

\* the four alternating syncs since the last local operation are done
CrossSynced == run.step = 4

\* C1: after sync(c1); sync(c2); sync(c1); sync(c2) with no local operation in
\* between, whatever the devices did before, both local stores hold the same
\* ids and for each id the same parent, name, content and deletion state.
Convergence == CrossSynced => Tree(local[1]) = Tree(local[2])

\* both devices had local work when the run of four syncs began
ConvergenceWitness ==
    /\ CrossSynced /\ run.common
    /\ \A c \in Clients : local_work(run.snap.local[c]) # {}
    /\ Tree(local[1]) = Tree(local[2])

\* C2: right after a sync of a device, with no local or remote change since,
\* that device has no local work and no server work, and another sync() changes
\* neither its local store nor the server's table and documents.
Idempotence ==
    lastSync # 0 =>
        LET c == lastSync
            W == SyncStep(World(files, docs, clock, local, watermark), c, binaryDocs)
        IN /\ local_work(local[c]) = {}
           /\ server_work(files, watermark[c]) = {}
           /\ W.local = local /\ W.watermark = watermark
           /\ W.files = files /\ W.docs = docs

\* the sync that came before had both local work and server work
IdempotenceWitness ==
    /\ lastSync # 0 /\ run.common /\ run.step = 2
    /\ \A c \in Clients : local_work(run.snap.local[c]) # {}
    /\ local_work(local[lastSync]) = {}

\* C3: after every completed sync of a device, validate() holds on its local
\* tree: one root, every file reaches it (no cycle, no orphan), and no two
\* files of one folder share a name.
ValidAfterSync == lastSync # 0 => validate(local[lastSync])

\* the sync pulled moves that close a cycle with the device's own
ValidAfterSyncWitness ==
    /\ lastSync # 0 /\ run.common /\ run.step = 2
    /\ \E id \in DOMAIN note.pulled : InCycle(note.pulled, id)
    /\ validate(local[lastSync])
\* the documents of a local store with a write the next sync has to deliver
WrittenDocs(L) ==
    {d \in LiveIds(L) : ~L[d].is_folder /\ L[d].content_edited_locally}

First == run.first
Second == Other(run.first)
Before(c) == run.snap.local[c]
BaseIds == {id \in DOMAIN run.snap.files : ~run.snap.files[id].deleted}
BaseParent(id) == run.snap.files[id].parent
BaseName(id) == run.snap.files[id].name

MovedOn(c) == {id \in BaseIds : Before(c)[id].parent # BaseParent(id)}
RenamedOn(c) == {id \in BaseIds : Before(c)[id].name # BaseName(id)}
DeletedOn(c) == {id \in BaseIds : Before(c)[id].deleted_locally}
CreatedOn(c) == (DOMAIN Before(c)) \ BaseIds
WrittenOn(c) == {id \in BaseIds : Before(c)[id].content_edited_locally}

\* the parents after the moves of both devices are put together
Combined ==
    [id \in BaseIds |->
        [parent |-> IF id \in MovedOn(Second) THEN Before(Second)[id].parent
                    ELSE Before(First)[id].parent]]

CycleOfMoves == {id \in BaseIds : InCycle(Combined, id)}

\* device c has received what both devices pushed: the second device after
\* its first sync of the run, the first device after its second
Settled(c) ==
    /\ run.common
    /\ \/ c = Second /\ run.step >= 2
       \/ c = First /\ run.step >= 3

OnlyMoves ==
    \A c \in Clients :
        RenamedOn(c) \cup DeletedOn(c) \cup CreatedOn(c) \cup WrittenOn(c) = {}

HasStaged == run.common /\ run.step >= 2
LocalMoves(L) == {id \in DOMAIN L : L[id].parent # L[id].bparent}
Reverted == {id \in DOMAIN note.pulled : note.staged[id].parent # note.pulled[id].parent}
Revert(L, S) ==
    [id \in DOMAIN L |-> IF id \in S THEN [L[id] EXCEPT !.parent = L[id].bparent] ELSE L[id]]
Acyclic(L) == \A id \in DOMAIN L : ~InCycle(L, id)

\* C6 as stated: the local moves a sync reverts are a minimum-cardinality set
\* of local moves whose undoing makes the staged tree acyclic.
RevertedSetIsMinimum ==
    HasStaged =>
        \A S \in SUBSET LocalMoves(note.pulled) :
            Acyclic(Revert(note.pulled, S)) => Cardinality(Reverted) <= Cardinality(S)

\* C6 as amended: for each cycle of the staged tree the sync reverts every
\* locally-applied move of a file on the cycle to the remote-accepted parent,
\* leaves every other entry as staged, and the staged tree is acyclic
\* afterwards.
RevertedSetIsAllCycleMoves ==
    HasStaged =>
        /\ {id \in LocalMoves(note.pulled) : InCycle(note.pulled, id)} \subseteq Reverted
        /\ Reverted \subseteq LocalMoves(note.pulled)
        /\ note.staged = Revert(note.pulled, Reverted)
        /\ Acyclic(note.staged)

\* a cycle of three closed by two local moves and one remote move: both local
\* moves are reverted though undoing one would break the cycle
RevertedSetIsAllCycleMovesWitness ==
    /\ HasStaged
    /\ Cardinality({id \in DOMAIN note.pulled : InCycle(note.pulled, id)}) = 3
    /\ Cardinality(Reverted) = 2
    /\ \E id \in Reverted : Acyclic(Revert(note.pulled, {id}))
\* the same start of the run with every local rename taken back
Unrenamed(l) ==
    [l EXCEPT !.name = l.bname, !.metadata_edited_locally = l.parent # l.bparent]

WithoutRenames(W) ==
    [W EXCEPT !.local = [c \in Clients |-> [id \in DOMAIN W.local[c] |->
                                                Unrenamed(W.local[c][id])]]]

\* c1.sync; c2.sync; c1.sync; c2.sync from W, the device first syncing first
CrossSync(W, first, binary) ==
    SyncStep(SyncStep(SyncStep(SyncStep(W, first, binary), Other(first), binary),
                      first, binary),
             Other(first), binary)

Parents(L) == [id \in DOMAIN L |-> L[id].parent]

\* file id carries the name a rename gave it, as it is or as the rename policy
\* disambiguated it when the server answered the push with PathTaken
NameKept(L, id, new) == L[id].name \in {new, Tagged(new, id)}

RenamesAndMoves ==
    \A c \in Clients : DeletedOn(c) \cup CreatedOn(c) \cup WrittenOn(c) = {}

ExplicitlyDeleted == UNION {DeletedOn(c) : c \in Clients}

\* C9: a file deleted on either device before the cross sync is absent from
\* the converged tree of both devices and deleted on the server, whatever the
\* other device did with it, and so is every file below a deleted file: no
\* device keeps an entry under a deleted or missing folder, and on the server
\* every row whose parent row is deleted is deleted.
DeletionWins ==
    run.common =>
        /\ \A c \in Clients : Settled(c) =>
               /\ ExplicitlyDeleted \cap DOMAIN local[c] = {}
               /\ LiveIds(local[c]) = DOMAIN local[c]
        /\ run.step >= 2 =>
               /\ \A id \in ExplicitlyDeleted : files[id].deleted
               /\ \A id \in DOMAIN files :
                      files[files[id].parent].deleted => files[id].deleted

\* c1 moves a under b and deletes b, c2 moves b under a: a and b are gone on
\* both devices
DeletionWinsWitness ==
    /\ CrossSynced /\ run.common
    /\ \E b \in DeletedOn(First) \cap MovedOn(Second) \cap CycleOfMoves :
           \E a \in MovedOn(First) :
               /\ Before(First)[a].parent = b /\ Before(Second)[b].parent = a
               /\ \A c \in Clients : {a, b} \cap DOMAIN local[c] = {}
               /\ files[a].deleted /\ files[b].deleted

\* C10: a folder whose local move the second device's sync reverted by cycle
\* resolution, and that was deleted on neither device, is in the converged
\* tree under its reverted parent, unless a folder above it there was deleted
\* on a device; that the folder it had been moved into was deleted on the
\* device after the move does not delete it.
RevertedFolderNotDeleted ==
    HasStaged =>
        \A c \in Clients : Settled(c) =>
            \A id \in Reverted \ ExplicitlyDeleted :
                IF ancestors(files, id) \cap ExplicitlyDeleted # {}
                THEN id \notin DOMAIN local[c]
                ELSE /\ id \in DOMAIN local[c]
                     /\ local[c][id].parent = note.staged[id].parent

\* c1 moves a under b; c2 moves b under a and deletes a: b is kept
RevertedFolderNotDeletedWitness ==
    /\ CrossSynced /\ HasStaged
    /\ \E id \in Reverted \ ExplicitlyDeleted :
           /\ Before(Second)[id].parent \in DeletedOn(Second)
           /\ \A c \in Clients : id \in DOMAIN local[c] /\ local[c][id].parent = BaseParent(id)

Unmoved == BaseIds \ UNION {MovedOn(c) : c \in Clients}

\* C11: a file whose parent neither device changed before the cross sync has
\* the parent it had before, on the server throughout the run and on each
\* device that still holds it once the device has received both devices'
\* pushes; the children of a moved or move-reverted folder stay its children.
UnmovedKeepParent ==
    run.common =>
        \A id \in Unmoved :
            /\ files[id].parent = BaseParent(id)
            /\ \A c \in Clients :
                   (Settled(c) /\ id \in DOMAIN local[c]) =>
                       local[c][id].parent = BaseParent(id)

\* /a/child/ with the two-cycle: c1 moves a under b, c2 moves b under a, and
\* the child is under a, a under b, on both devices
UnmovedKeepParentWitness ==
    /\ CrossSynced /\ run.common
    /\ \E ch \in Unmoved : \E a \in MovedOn(First) : \E b \in MovedOn(Second) :
           /\ BaseParent(ch) = a /\ ch # a
           /\ Before(First)[a].parent = b /\ Before(Second)[b].parent = a
           /\ \A c \in Clients :
                  /\ local[c][ch].parent = a
                  /\ local[c][a].parent = b
                  /\ local[c][b].parent = BaseParent(b)

\* C12: after sync(c1); sync(c2); sync(c1); sync(c2) with no local operation in
\* between, whatever the devices did before, no local store holds an entry
\* that is marked deleted, whose row on the server is deleted or missing, or
\* that has a missing or deleted folder above it.
DeletedFilesPruned ==
    CrossSynced =>
        \A c \in Clients : \A id \in DOMAIN local[c] :
            /\ ~local[c][id].deleted_locally
            /\ id \in DOMAIN files /\ ~files[id].deleted
            /\ \A a \in ancestors(local[c], id) :
                   a \in DOMAIN local[c] /\ ~files[a].deleted

\* a device deleted a folder that held a file it did not delete: both are
\* deleted on the server and neither device holds an entry for either
DeletedFilesPrunedWitness ==
    /\ CrossSynced /\ run.common
    /\ \E id \in BaseIds \ ExplicitlyDeleted :
           /\ files[id].parent \in ExplicitlyDeleted
           /\ files[id].deleted
           /\ \A c \in Clients : {id, files[id].parent} \cap DOMAIN local[c] = {}

\* ---------------------------------------------------------- the server's API
\* Requests made to the server one by one, as the API tests make them: any
\* client may name any id, version, type, parent, name and owner.  The clock
\* is the server's NOW() in milliseconds: it moves between requests or stays.
Versioned == {"rename_file", "move_file", "delete_file", "change_document_content_version"}

\* a folder, the newest file, and an id no row has; as parent the root, the
\* folder, the newest file, the id no row has (a new file's own id) and
\* another one
CallIds == {1, Max(DOMAIN files), Max(DOMAIN files) + 1}
CallParents == {Root, 1} \cup (Max(DOMAIN files) .. Max(DOMAIN files) + 2)
CallNames == {PlainName(1), PlainName(SharedName)}
\* the version the row has, the version the last request carried, or a
\* version no row has
CallVersions(id) ==
    {0, call.req.old_metadata_version}
        \cup {files[x].metadata_version : x \in {id} \cap DOMAIN files}

\* the request is answered: the table and the history of the call
Served(req, rows, res) ==
    /\ call.n < MaxCalls
    /\ files' = rows
    /\ call' = [n |-> call.n + 1, req |-> req, res |-> res,
                again |-> call.res = "Ok" /\ call.req = req]
    /\ UNCHANGED <<docs, clock, local, watermark, binaryDocs, ops, lastSync, run, note,
                   session, db, hist, txn, index_db>>

ServedFile(req, r) == Served(req, r.rows, r.res) /\ UNCHANGED accounts

ServedAccount(req, r) == Served(req, files, r.res) /\ accounts' = r.accounts

NewAccount ==
    \E u \in Usernames, k \in PublicKeys :
        ServedAccount(Request("new_account", 0, 0, FALSE, 0, PlainName(0), u) @@ [key |-> k],
                      new_account(accounts, u, k))

\* the files the requests create are folders (they can be parents); the
\* document of the account is there from the start
CreateFile ==
    \E id \in CallIds, p \in CallParents, nm \in CallNames, u \in Usernames :
        ServedFile(Request("create_file", id, 0, TRUE, p, nm, u),
                   create_file(files, accounts, clock, id, p, TRUE, nm, u))

MoveFile ==
    \E id \in CallIds, f \in BOOLEAN, p \in CallParents :
        \E v \in CallVersions(id) :
            ServedFile(Request("move_file", id, v, f, p, PlainName(0), Owner),
                       move_file(files, clock, id, v, f, p))

RenameFile ==
    \E id \in CallIds, f \in BOOLEAN, nm \in CallNames :
        \E v \in CallVersions(id) :
            ServedFile(Request("rename_file", id, v, f, 0, nm, Owner),
                       rename_file(files, clock, id, v, f, nm))

DeleteFile ==
    \E id \in CallIds, f \in BOOLEAN :
        \E v \in CallVersions(id) :
            ServedFile(Request("delete_file", id, v, f, 0, PlainName(0), Owner),
                       delete_file(files, clock, id, v, f))

ChangeDocumentContent ==
    \E id \in CallIds :
        \E v \in CallVersions(id) :
            ServedFile(Request("change_document_content_version", id, v, FALSE, 0,
                               PlainName(0), Owner),
                       change_document_content_version(files, clock, id, v))

\* a millisecond passes
Tick ==
    /\ clock < DocId + 1 + MaxTicks
    /\ clock' = clock + 1
    /\ UNCHANGED <<files, docs, local, watermark, binaryDocs, ops, lastSync, run, note,
                   accounts, call, session, db, hist, txn, index_db>>

ServerNext ==
    NewAccount \/ CreateFile \/ MoveFile \/ RenameFile \/ DeleteFile
        \/ ChangeDocumentContent \/ Tick

\* the account holds a folder and a document; the media type of the documents
\* is the devices' matter, not the server's
ServerInit == Init /\ ~binaryDocs /\ DocId \in DOMAIN files

ServerSpec == ServerInit /\ [][ServerNext]_vars

\* ------------------------------------------------- claims on the server's API
Called(op) == call' # call /\ call'.req.op = op

ClientSees(res) ==
    lockbook_api_new_account(NewAccountResponse(res).status, NewAccountResponse(res).error_code)

\* C13: new_account for a username that has no account stores the account
\* with its public key and succeeds; new_account for a username that has one
\* returns UsernameTaken, which the client receives as
\* NewAccountError::UsernameTaken, and the stored public key of every account
\* stays as it is.
UsernameCollision ==
    [][/\ \A u \in DOMAIN accounts : u \in DOMAIN accounts' /\ accounts'[u] = accounts[u]
       /\ Called("new_account") =>
              IF call'.req.owner \in DOMAIN accounts
              THEN /\ call'.res = "UsernameTaken" /\ ClientSees(call'.res) = "UsernameTaken"
                   /\ accounts' = accounts
              ELSE /\ call'.res = "Ok" /\ ClientSees(call'.res) = "Ok"
                   /\ accounts' = With(accounts, call'.req.owner, call'.req.key)]_vars

\* a username registered by one request is asked for again with another key
UsernameCollisionWitness ==
    /\ call.n >= 2 /\ call.req.op = "new_account" /\ call.res = "UsernameTaken"
    /\ call.req.owner # Owner
    /\ accounts[call.req.owner] # call.req.key

\* C14: rename_file, move_file, delete_file and
\* change_document_content_version for an id that has no row return
\* DoesNotExist, and the table is afterwards what it was: no row is added and
\* none is changed.
MissingFileDoesNotExist ==
    [][\A op \in Versioned :
          (Called(op) /\ call'.req.id \notin DOMAIN files) =>
              call'.res = "DoesNotExist" /\ files' = files]_vars

\* a rename of an id no row has, carrying a version rows do have
MissingFileDoesNotExistWitness ==
    /\ call.req.op = "rename_file" /\ call.res = "DoesNotExist"
    /\ call.req.id \notin DOMAIN files

\* the request of the step names a row that is deleted
ToDeleted(op) ==
    /\ Called(op)
    /\ call'.req.id \in DOMAIN files
    /\ files[call'.req.id].deleted

\* C15 as stated: every rename_file, move_file, delete_file and
\* change_document_content_version for a row that is deleted returns Deleted
\* and leaves the row as it is, whatever version the request carries.
DeletedFileReturnsDeleted ==
    [][\A op \in Versioned :
          ToDeleted(op) =>
              /\ call'.res = "Deleted"
              /\ files'[call'.req.id] = files[call'.req.id]]_vars

\* C15 as amended: such a request returns Deleted when the file type it
\* carries is the row's (for change_document_content_version: when the row is
\* a document) and WrongFileType when it is not, whatever version it carries;
\* in both cases the table is left as it is.
DeletedFileRejected ==
    [][\A op \in Versioned :
          ToDeleted(op) =>
              /\ call'.res = IF files[call'.req.id].is_folder = call'.req.is_folder
                             THEN "Deleted" ELSE "WrongFileType"
              /\ files' = files]_vars

\* a rename of a deleted row that carries the row's type and current version
DeletedFileRejectedWitness ==
    /\ call.req.op = "rename_file" /\ call.res = "Deleted"
    /\ call.req.id \in DOMAIN files
    /\ files[call.req.id].deleted
    /\ files[call.req.id].metadata_version = call.req.old_metadata_version

\* C16: a row that is deleted stays in the table and stays deleted through
\* every request any client makes, and a create_file for the id of a row,
\* deleted or not, returns IdTaken and leaves the table as it is.
TombstonesPermanent ==
    [][/\ \A id \in DOMAIN files :
              files[id].deleted => id \in DOMAIN files' /\ files'[id].deleted
       /\ (Called("create_file") /\ call'.req.id \in DOMAIN files) =>
              call'.res = "IdTaken" /\ files' = files]_vars

\* a create_file reuses the id of a deleted row, with a free name, and fails
TombstonesPermanentWitness ==
    /\ call.req.op = "create_file" /\ call.res = "IdTaken"
    /\ call.req.id \in DOMAIN files
    /\ files[call.req.id].deleted
    /\ ~PathTaken(files, call.req.id, call.req.parent, call.req.name)

\* the step is a successful call of a version-checked statement on row id
Mutated(id) ==
    /\ call' # call /\ call'.req.op \in Versioned
    /\ call'.res = "Ok" /\ call'.req.id = id

\* C17 as stated: the metadata_version of a row never decreases, and every
\* successful move, rename, delete or content change leaves it strictly
\* greater than it was.
VersionsStrictlyIncrease ==
    [][\A id \in DOMAIN files :
          /\ files'[id].metadata_version >= files[id].metadata_version
          /\ Mutated(id) => files'[id].metadata_version > files[id].metadata_version]_vars

\* what holds of C17: with a server clock that does not run backwards the
\* metadata_version of a row never decreases, and a successful mutation
\* leaves it at the clock's reading, which is greater than the old version
\* exactly when the clock has moved past it.
VersionsFollowClock ==
    [][\A id \in DOMAIN files :
          /\ files'[id].metadata_version >= files[id].metadata_version
          /\ Mutated(id) => files'[id].metadata_version = clock]_vars

\* a row was deleted in the millisecond its version was written: the
\* tombstone carries the version the live row had
VersionsFollowClockWitness ==
    /\ call.req.op = "delete_file" /\ call.res = "Ok"
    /\ files[call.req.id].deleted
    /\ files[call.req.id].metadata_version = call.req.old_metadata_version

\* the step repeats the request of the call before it, which succeeded
Repeated(op) == Called(op) /\ call'.again

CreateErrors(rows, accts, req) ==
    {e \in {"IdTaken", "PathTaken", "ParentDoesNotExist", "OwnerDoesNotExist"} :
        \/ e = "IdTaken" /\ req.id \in DOMAIN rows
        \/ e = "PathTaken" /\ PathTaken(rows, req.id, req.parent, req.name)
        \/ e = "ParentDoesNotExist" /\ req.parent \notin (DOMAIN rows) \cup {req.id}
        \/ e = "OwnerDoesNotExist" /\ req.owner \notin DOMAIN accts}

\* C19: create_file returns IdTaken when a row has the id, PathTaken when a
\* row has the name and the parent, ParentDoesNotExist when no row has the
\* parent id (the new row counts: a file may be its own parent),
\* OwnerDoesNotExist when the owner has no account, and inserts nothing then;
\* a request in one case only gets that case's error, a request in several
\* gets the error of one of them; in every other case the row is inserted,
\* not deleted, with the request's parent, name and type and the clock's
\* reading as metadata_version and content_version.
CreateFileErrors ==
    [][Called("create_file") =>
          IF CreateErrors(files, accounts, call'.req) = {}
          THEN /\ call'.res = "Ok"
               /\ files' = With(files, call'.req.id,
                                [parent |-> call'.req.parent, name |-> call'.req.name,
                                 is_folder |-> call'.req.is_folder, deleted |-> FALSE,
                                 owner |-> call'.req.owner,
                                 metadata_version |-> clock, content_version |-> clock])
          ELSE /\ call'.res \in CreateErrors(files, accounts, call'.req)
               /\ files' = files]_vars

\* a create_file with a free id and path and an existing parent, for an owner
\* that has no account
CreateFileErrorsWitness ==
    /\ call.req.op = "create_file" /\ call.res = "OwnerDoesNotExist"
    /\ CreateErrors(files, accounts, call.req) = {"OwnerDoesNotExist"}

SiblingNamesUnique(rows) ==
    \A a, b \in DOMAIN rows :
        (a # b /\ rows[a].parent = rows[b].parent) => rows[a].name # rows[b].name

\* the request of the step would give a row the parent and name of another:
\* a create_file of a free id, or a rename_file or move_file that the row's
\* state, version and type admit
WouldCollide ==
    LET r == call'.req
    IN \/ /\ Called("create_file") /\ r.id \notin DOMAIN files
          /\ PathTaken(files, r.id, r.parent, r.name)
       \/ /\ Called("rename_file") /\ r.id \in DOMAIN files
          /\ UpdateApplies(files[r.id], r.old_metadata_version, r.is_folder)
          /\ PathTaken(files, r.id, files[r.id].parent, r.name)
       \/ /\ Called("move_file") /\ r.id \in DOMAIN files
          /\ UpdateApplies(files[r.id], r.old_metadata_version, r.is_folder)
          /\ PathTaken(files, r.id, r.parent, files[r.id].name)

\* C20: after every request any client makes, no two rows of the files
\* table, deleted rows included, have the same parent and the same name; a
\* create_file, rename_file or move_file that would give a row the parent
\* and name of another returns PathTaken, and a request that returns
\* PathTaken leaves the table as it is.
SiblingNamesStayUnique ==
    [][/\ SiblingNamesUnique(files) => SiblingNamesUnique(files')
       /\ WouldCollide => call'.res = "PathTaken"
       /\ (call' # call /\ call'.res = "PathTaken") => files' = files]_vars

\* a move_file of a live row, with its version and type, under a folder that
\* holds a row of the same name
SiblingNamesStayUniqueWitness ==
    /\ SiblingNamesUnique(files)
    /\ call.req.op = "move_file" /\ call.res = "PathTaken"
    /\ call.req.id \in DOMAIN files
    /\ UpdateApplies(files[call.req.id], call.req.old_metadata_version, call.req.is_folder)
    /\ \E o \in (DOMAIN files) \ {call.req.id} :
           /\ files[o].parent = call.req.parent
           /\ files[o].name = files[call.req.id].name
           /\ files[o].parent # files[call.req.id].parent

\* C21 as stated: whatever move_file requests two clients make, each with the
\* version it last saw of the file it moves, no row of the files table is
\* among its own ancestors.
ServerParentsAcyclic == \A id \in DOMAIN files : ~InCycle(files, id)

\* ------------------------------------------------------- the sync() session
\* sync() of section 4.5 and 5 as the steps it suspends at: the call, the pull
\* RPC with the merge, one RPC per work unit, and the commit at the end.  The
\* sessions of the two devices interleave, and a third device of the account
\* changes the server in between.

\* the device whose sync() is followed step by step
Syncers == {1}

\* N of section 4.5: the restarts one sync() makes
MaxRestarts == 3

\* what the third device does, and what the two devices do locally
MaxRemote == 4
MaxEdits == 2
MaxSyncs == 2

\* an engine that starts a sync() whatever runs on the store
CanStart_always(s) == TRUE

\* the engine starts a sync() only when none is running on the store
CanStart(s) == s.phase = "idle"

\* an engine that restarts whenever a push is rejected
MayRestart_always(s) == TRUE

\* on IncorrectOldVersion the sync restarts from Phase A, N times at most
MayRestart(s) == s.restarts < MaxRestarts

\* the work unit has something to do
Pending(rows, l, kind, id) ==
    CASE kind = "create" -> TRUE
      [] kind = "rename" -> l.name # rows[id].name
      [] kind = "move" -> l.parent # rows[id].parent
      [] kind = "content" -> l.content_edited_locally
      [] kind = "delete" -> TRUE

\* the server's reply to the first request of the work unit
FirstReply(P, kind, id, l) ==
    CASE kind = "create" ->
             create_file(P.rows, OwnAccount, P.now + 1, id, l.parent, l.is_folder, l.name,
                         Owner)
      [] kind = "rename" ->
             rename_file(P.rows, P.now + 1, id, l.metadata_version, l.is_folder, l.name)
      [] kind = "move" ->
             move_file(P.rows, P.now + 1, id, l.metadata_version, l.is_folder, l.parent)
      [] kind = "content" ->
             change_document_content_version(P.rows, P.now + 1, id, l.metadata_version)
      [] kind = "delete" ->
             delete_file(P.rows, P.now + 1, id, l.metadata_version, l.is_folder)

Answer(P, kind, id, l) == FirstReply(P, kind, id, l).res

\* the server after it served the first request of the work unit: the table,
\* and the blob a create_file or a change_document_content request carries
ServedRows(P, kind, id, l) ==
    IF Answer(P, kind, id, l) = "Ok" THEN FirstReply(P, kind, id, l).rows ELSE P.rows

ServedBlobs(P, kind, id, l) ==
    IF Answer(P, kind, id, l) = "Ok" /\ kind \in {"create", "content"}
    THEN With(P.blobs, id, l.content)
    ELSE P.blobs

\* the watermark after a sync that pulled up to mark: every version up to it
\* is held by the store
Foreign(rows, L, mark) ==
    {rows[id].metadata_version :
        id \in {x \in DOMAIN rows :
                   /\ rows[x].metadata_version > mark
                   /\ x \notin DOMAIN L \/ L[x].metadata_version # rows[x].metadata_version}}

Reached(rows, L, mark) ==
    IF Foreign(rows, L, mark) = {}
    THEN Max({mark} \cup {rows[id].metadata_version : id \in DOMAIN rows})
    ELSE Max({mark, (CHOOSE v \in Foreign(rows, L, mark) :
                        \A w \in Foreign(rows, L, mark) : v <= w) - 1})

\* an abort that marks every entry of the store as pushed
Aborted_as_pushed(L) ==
    [id \in DOMAIN L |-> [L[id] EXCEPT !.new_locally = FALSE,
                                       !.metadata_edited_locally = FALSE,
                                       !.content_edited_locally = FALSE,
                                       !.deleted_locally = FALSE]]

\* the local store after a sync was aborted: the transactions committed so far
Aborted(L) == L

SessionFrame ==
    UNCHANGED <<binaryDocs, ops, lastSync, run, note, accounts, db, hist, txn, index_db>>

\* sync() is called on the store of device c: a second call is refused
SyncStart(c) ==
    /\ CanStart(session[c]) => session[c].calls < MaxSyncs
    /\ session' = [session EXCEPT ![c] =
                      IF CanStart(session[c])
                      THEN [NoSession EXCEPT !.phase = "pulling",
                                             !.calls = session[c].calls + 1,
                                             !.doubt = session[c].doubt]
                      ELSE [session[c] EXCEPT !.reply = "SyncInProgress"]]
    /\ UNCHANGED <<files, docs, clock, local, watermark, call>>
    /\ SessionFrame

\* Phase B, the rename policy: a staged entry that was created, renamed or
\* moved locally and collides with a sibling gets the tagged name
LocalIntent(l) == l.new_locally \/ l.name # l.bname \/ l.parent # l.bparent

RenamePolicy(L) ==
    [id \in DOMAIN L |->
        IF /\ Alive(L, id)
           /\ LocalIntent(L[id])
           /\ NameTakenLocally(L, id, L[id].parent, L[id].name)
        THEN [L[id] EXCEPT !.name = Tagged(@, id),
                           !.metadata_edited_locally = ~L[id].new_locally]
        ELSE L[id]]

\* Phase A and B: get_updates is answered, the staged tree is committed
SyncPull(c) ==
    /\ session[c].phase = "pulling"
    /\ local' = [local EXCEPT ![c] = RenamePolicy(Staged(files, docs, local[c], watermark[c],
                                                         binaryDocs, TopId))]
    /\ session' = [session EXCEPT
           ![c].phase = "pushing",
           ![c].work = SelectSeq(PushOrdered(PushState(files, docs, clock, local'[c]),
                                             LiveIds(local'[c])),
                                 LAMBDA u : Pending(files, local'[c][u.id], u.kind, u.id)),
           ![c].mark = Max({watermark[c]}
                           \cup {files[id].metadata_version : id \in DOMAIN files}),
           ![c].doubt = FALSE]
    /\ UNCHANGED <<files, docs, clock, watermark, call>>
    /\ SessionFrame

\* the sync restarts from Phase A, or stops when N restarts were made
Rejected(s) ==
    IF MayRestart(s)
    THEN [s EXCEPT !.phase = "pulling", !.work = <<>>, !.restarts = @ + 1]
    ELSE [s EXCEPT !.phase = "idle", !.work = <<>>, !.reply = "RetriesExhausted"]

\* Phase C, one work unit: its requests are answered and its outcome is
\* committed
SyncPush(c) ==
    /\ session[c].phase = "pushing"
    /\ session[c].work # <<>>
    /\ LET u == Head(session[c].work)
           P == PushState(files, docs, clock, local[c])
       IN IF ~Pending(files, local[c][u.id], u.kind, u.id)
          THEN /\ session' = [session EXCEPT ![c].work = Tail(@)]
               /\ UNCHANGED <<files, docs, clock, local>>
          ELSE IF Answer(P, u.kind, u.id, local[c][u.id]) = "IncorrectOldVersion"
          THEN /\ session' = [session EXCEPT ![c] = Rejected(@)]
               /\ clock' = clock + 1
               /\ UNCHANGED <<files, docs, local>>
          ELSE /\ files' = PushOne(P, u.kind, u.id).rows
               /\ docs' = PushOne(P, u.kind, u.id).blobs
               /\ clock' = PushOne(P, u.kind, u.id).now
               /\ local' = [local EXCEPT ![c] = PushOne(P, u.kind, u.id).L]
               /\ session' = [session EXCEPT
                      ![c].work = Tail(@),
                      ![c].sent = Append(@, [kind |-> u.kind, id |-> u.id,
                                             parent |-> local[c][u.id].parent])]
    /\ UNCHANGED <<watermark, call>>
    /\ SessionFrame

\* every work unit was handled: the flags are cleared, the watermark advances
SyncFinish(c) ==
    /\ session[c].phase = "pushing"
    /\ session[c].work = <<>>
    /\ local' = [local EXCEPT ![c] = Committed(PushState(files, docs, clock, local[c]))]
    /\ watermark' = [watermark EXCEPT ![c] = Reached(files, local[c], session[c].mark)]
    /\ session' = [session EXCEPT ![c].phase = "idle", ![c].reply = "Ok"]
    /\ UNCHANGED <<files, docs, clock, call>>
    /\ SessionFrame

\* the network fails at the RPC the sync is waiting for: the request of a work
\* unit was lost, or it was served and its answer was lost
NetworkFailure(c) ==
    /\ \/ /\ session[c].phase = "pulling"
          /\ UNCHANGED <<files, docs, clock>>
       \/ /\ session[c].phase = "pushing"
          /\ session[c].work # <<>>
          /\ \/ UNCHANGED <<files, docs, clock>>
             \/ LET u == Head(session[c].work)
                    P == PushState(files, docs, clock, local[c])
                IN /\ Pending(files, local[c][u.id], u.kind, u.id)
                   /\ files' = ServedRows(P, u.kind, u.id, local[c][u.id])
                   /\ docs' = ServedBlobs(P, u.kind, u.id, local[c][u.id])
                   /\ clock' = clock + 1
    /\ session' = [session EXCEPT ![c].phase = "idle", ![c].work = <<>>,
                                  ![c].reply = "Transport",
                                  ![c].doubt = @ \/ files' # files \/ docs' # docs]
    /\ local' = [local EXCEPT ![c] = Aborted(@)]
    /\ UNCHANGED <<watermark, call>>
    /\ SessionFrame

\* a local operation on the store of a device that is not syncing
Edit(c) ==
    /\ session[c].phase = "idle"
    /\ ops < MaxEdits
    /\ Create(c) \/ Move(c) \/ Rename(c) \/ Delete(c) \/ Write(c)

\* the third device renames a file on the server while a sync() is running
RemoteIds == {1}

RemoteRename ==
    /\ call.n < MaxRemote
    /\ \E c \in Syncers : session[c].phase # "idle"
    /\ \E id \in RemoteIds, name \in CallNames \ {files[id].name : id \in RemoteIds} :
           LET r == rename_file(files, clock + 1, id, files[id].metadata_version,
                                files[id].is_folder, name)
           IN /\ r.res = "Ok"
              /\ files' = r.rows
    /\ clock' = clock + 1
    /\ call' = [call EXCEPT !.n = @ + 1]
    /\ UNCHANGED <<docs, local, watermark, session>>
    /\ SessionFrame

SessionNext ==
    \/ \E c \in Syncers :
           \/ Edit(c)
           \/ SyncStart(c) \/ SyncPull(c) \/ SyncPush(c) \/ SyncFinish(c)
           \/ NetworkFailure(c)
    \/ RemoteRename

\* the account holds one folder, the folders alone, or one folder and one text
\* document
SessionInit ==
    \E u \in Universes \cup {{1}} :
        /\ files = [id \in {Root} \cup u |-> InitRow(id)]
        /\ docs = [id \in {Root} \cup u |-> {}]
        /\ clock = DocId + 1
        /\ local = [c \in Clients |-> [id \in {Root} \cup u |-> FromServer(InitRow(id), {})]]
        /\ watermark = [c \in Clients |-> DocId + 1]
        /\ binaryDocs = FALSE
        /\ ops = 0
        /\ lastSync = 0
        /\ run = NoRun
        /\ note = NoNote
        /\ accounts = OwnAccount
        /\ call = NoCall
        /\ session = [c \in Clients |-> NoSession]
        /\ db = EmptyDb
        /\ hist = <<>>
        /\ txn = NoTxn
        /\ index_db = NoFiles

SessionSpec == SessionInit /\ [][SessionNext]_vars

\* ------------------------------------------------- claims on the sync session
\* a sync() call on the store of device c is answered SyncInProgress in this
\* step
Refused(c) ==
    session[c].reply # "SyncInProgress" /\ session'[c].reply = "SyncInProgress"

\* C22 as stated: a sync() begins on a store only when none is running on it,
\* and a sync() call made while one is running is answered SyncInProgress and
\* changes neither the server nor the store, the watermark or the running sync.
OneSyncPerStore ==
    [][\A c \in Syncers :
          /\ session'[c].calls # session[c].calls =>
                 /\ session[c].phase = "idle"
                 /\ session'[c].phase = "pulling"
          /\ Refused(c) =>
                 /\ session[c].phase # "idle"
                 /\ session'[c] = [session[c] EXCEPT !.reply = "SyncInProgress"]
                 /\ UNCHANGED <<files, docs, clock, local, watermark>>]_vars

\* a second sync() was refused while the first had pushed a part of its work
OneSyncPerStoreWitness ==
    \E c \in Syncers :
        /\ session[c].reply = "SyncInProgress"
        /\ session[c].phase = "pushing"
        /\ session[c].sent # <<>> /\ session[c].work # <<>>

\* the sync() of device c was aborted by a network failure in this step
Interrupted(c) ==
    session[c].phase # "idle" /\ session'[c].phase = "idle" /\ session'[c].reply = "Transport"

\* the store holds id as the server holds it
AsOnServer(rows, blobs, L, id) ==
    /\ id \in DOMAIN rows
    /\ ~rows[id].deleted
    /\ rows[id].parent = L[id].parent /\ rows[id].name = L[id].name
    /\ blobs[id] = L[id].content

\* the server holds a version of id the store has not received
Newer(rows, L, id) ==
    id \in DOMAIN rows /\ rows[id].metadata_version > L[id].metadata_version

\* nothing is pending in the store L, and the server holds what it holds
AllPushed(rows, blobs, L) ==
    \A id \in DOMAIN L : ~Dirty(L[id]) /\ AsOnServer(rows, blobs, L, id)

\* what was pending in the store L is in the store M a sync left: a deleted
\* entry is gone, a live one has its local parent and name, and its local
\* content or, when the server's content is newer, the three-way merge, which
\* has the lines the write added and none of those it removed
IntentKept(L, old, rows, M) ==
    \A id \in DOMAIN L :
        IF Alive(L, id)
        THEN /\ id \in DOMAIN M
             /\ L[id].parent # L[id].bparent => M[id].parent = L[id].parent
             /\ L[id].name # L[id].bname => NameKept(M, id, L[id].name)
             /\ L[id].content_edited_locally =>
                    /\ ~ContentConflict(L[id], old[id]) => M[id].content = L[id].content
                    /\ (L[id].content \ L[id].bcontent) \subseteq M[id].content
                    /\ (L[id].bcontent \ L[id].content) \cap M[id].content = {}
        ELSE /\ id \notin DOMAIN M
             /\ id \in DOMAIN rows => rows[id].deleted

\* the store M a sync left holds the tree of the store L: every live entry
\* with its parent, its name and its content, and no deleted entry
StoreKept(L, M) ==
    \A id \in DOMAIN L :
        IF Alive(L, id)
        THEN /\ id \in DOMAIN M
             /\ M[id].parent = L[id].parent
             /\ NameKept(M, id, L[id].name)
             /\ M[id].content = L[id].content
        ELSE id \notin DOMAIN M

\* the local tree validates, every entry the server does not hold as the store
\* holds it has a dirty flag, and the sync that follows leaves the store clean
\* and equal to the server
Recoverable(rows, blobs, now, L, since, top) ==
    /\ validate(L)
    /\ \A id \in DOMAIN L :
           (~AsOnServer(rows, blobs, L, id) /\ ~Newer(rows, L, id)) => Dirty(L[id])
    /\ AllPushed(sync(rows, blobs, now, L, since, FALSE, top).rows,
                 sync(rows, blobs, now, L, since, FALSE, top).blobs,
                 sync(rows, blobs, now, L, since, FALSE, top).L)

\* the sync that follows pushes what is pending in the store L; alone
\* tells whether no other device changed the server, and the server then ends
\* with the tree of the store
NoIntentLost(rows, blobs, now, L, since, top, alone) ==
    /\ IntentKept(L, rows, sync(rows, blobs, now, L, since, FALSE, top).rows,
                  sync(rows, blobs, now, L, since, FALSE, top).L)
    /\ alone => StoreKept(L, sync(rows, blobs, now, L, since, FALSE, top).L)

Edited(c, d) ==
    /\ d \in DOMAIN local[c] /\ d \in DOMAIN local'[c]
    /\ lastSync' = 0 /\ session' = session
    /\ local'[c][d].content # local[c][d].content

PushRejected(c) ==
    /\ session[c].phase = "pushing" /\ session[c].work # <<>>
    /\ session'[c] # session[c]
    /\ session'[c].reply \notin {"Transport", "SyncInProgress"}
    /\ LET u == Head(session[c].work)
       IN /\ Pending(files, local[c][u.id], u.kind, u.id)
          /\ Answer(PushState(files, docs, clock, local[c]), u.kind, u.id, local[c][u.id])
                 = "IncorrectOldVersion"

\* the steps a sync() in state s has left at most: what is left of the attempt
\* it is in, and a whole attempt for every restart it may still make
WorkBound == 3 * MaxFiles

Remaining(s) ==
    (MaxRestarts - s.restarts) * (WorkBound + 2)
        + (CASE s.phase = "pulling" -> WorkBound + 2
             [] s.phase = "pushing" -> Len(s.work) + 1
             [] s.phase = "idle" -> 0)

\* the running sync() of device c takes a step
Advances(c) ==
    session[c].phase # "idle" /\ session'[c] # session[c] /\ ~Refused(c)

\* C24 as stated: a sync() makes at most N restarts; a push rejected with
\* IncorrectOldVersion restarts the sync from the pull while fewer than N
\* restarts were made and ends the sync otherwise; and the sync terminates
\* whatever the other client does to the server: every step the sync takes
\* lowers the number of steps it has left, which is never negative.
SyncTerminates ==
    [][\A c \in Syncers :
          /\ session'[c].restarts <= MaxRestarts
          /\ PushRejected(c) =>
                 IF session[c].restarts < MaxRestarts
                 THEN /\ session'[c].phase = "pulling"
                      /\ session'[c].restarts = session[c].restarts + 1
                 ELSE /\ session'[c].phase = "idle"
                      /\ session'[c].reply = "RetriesExhausted"
          /\ Advances(c) =>
                 /\ Remaining(session'[c]) < Remaining(session[c])
                 /\ Remaining(session'[c]) >= 0]_vars

\* the other client changed the file between every pull and push: the sync
\* made N restarts and returned at the next rejection
SyncTerminatesWitness ==
    \E c \in Syncers :
        /\ session[c].phase = "idle"
        /\ session[c].reply = "RetriesExhausted"
        /\ session[c].restarts = MaxRestarts

\* the work unit a was sent before the work unit b of the same sync, and they
\* keep the order of section 4.4
InOrder(a, b) ==
    /\ a.kind = "delete" => b.kind = "delete"
    /\ (a.kind = "create" /\ b.kind = "create") => a.parent # b.id
    /\ (a.kind = "move" /\ b.kind = "rename") => (a.id # b.id /\ a.parent # b.id)

\* C26 as stated: among the work units a sync pushed, no delete comes before
\* a unit that is not a delete, no new file before its new parent folder, and
\* no move of a folder or into a folder before the rename of that folder.
PushOrderKept ==
    \A c \in Syncers :
        \A i, j \in 1 .. Len(session[c].sent) :
            i < j => InOrder(session[c].sent[i], session[c].sent[j])

\* a new folder and a new folder inside it were pushed, the parent first
PushOrderKeptWitness ==
    \E c \in Syncers :
        /\ Len(session[c].sent) = 2
        /\ session[c].sent[1].kind = "create" /\ session[c].sent[2].kind = "create"
        /\ session[c].sent[2].parent = session[c].sent[1].id

\* ---------------------------------------------------------- the local database
\* The repos of the core library over the local database of one device, and
\* the crypto service.  Result<T, E> is Ok(v) or Err(e); a call that panics
\* returns nothing.
Ok(v) == [ok |-> TRUE, val |-> v]
Err(e) == [ok |-> FALSE, err |-> e]
Panic(e) == [ok |-> FALSE, panic |-> e]
Unit == <<>>

\* at most this many calls are made to the repos, and to the crypto service
MaxRepoCalls == 4
MaxCryptoCalls == 3
MaxSignCalls == 3
MaxApiCalls == 2

\* A String whose bytes matter is the sequence of its chars (code points below
\* 2048); as_bytes is its UTF-8 encoding, from_utf8 the decoding.  Both work on
\* the halves of their argument.
Utf8Char(c) == IF c < 128 THEN <<c>> ELSE <<192 + (c \div 64), 128 + (c % 64)>>

RECURSIVE as_bytes(_)
as_bytes(s) ==
    IF s = <<>> THEN <<>>
    ELSE IF Len(s) = 1 THEN Utf8Char(s[1])
    ELSE as_bytes(SubSeq(s, 1, Len(s) \div 2))
             \o as_bytes(SubSeq(s, (Len(s) \div 2) + 1, Len(s)))

\* the file ids "a" and "b", the files of update_file
FileIds == {<<97>>, <<98>>}

EncryptedFile(garbage, nonce) ==
    [access_keys |-> <<>>,
     content |-> [garbage |-> garbage, nonce |-> nonce],
     last_edited |-> [content |-> "", signature |-> ""]]

EncryptedFiles == {EncryptedFile("something", "nonce1"), EncryptedFile("updated", "nonce2")}

\* serde_json: a struct is written as the list of its fields by name, and read
\* back field by field
HasField(doc, name) == \E i \in DOMAIN doc : doc[i][1] = name
Field(doc, name) == doc[CHOOSE i \in DOMAIN doc : doc[i][1] = name][2]

to_vec(file) ==
    <<<<"access_keys", file.access_keys>>,
      <<"content", <<<<"garbage", file.content.garbage>>,
                     <<"nonce", file.content.nonce>>>>>>,
      <<"last_edited", <<<<"content", file.last_edited.content>>,
                         <<"signature", file.last_edited.signature>>>>>>>>

from_slice(value) ==
    IF /\ \A f \in {"access_keys", "content", "last_edited"} : HasField(value, f)
       /\ \A f \in {"garbage", "nonce"} : HasField(Field(value, "content"), f)
       /\ \A f \in {"content", "signature"} : HasField(Field(value, "last_edited"), f)
    THEN Ok([access_keys |-> Field(value, "access_keys"),
             content |-> [garbage |-> Field(Field(value, "content"), "garbage"),
                          nonce |-> Field(Field(value, "content"), "nonce")],
             last_edited |-> [content |-> Field(Field(value, "last_edited"), "content"),
                              signature |-> Field(Field(value, "last_edited"),
                                                  "signature")]])
    ELSE Err("SerdeError")

\* a repo that keeps the first file written under an id
FileRepoImpl_update_first(d, id, file) ==
    [db |-> [d EXCEPT !.files = IF as_bytes(id) \in DOMAIN @
                                THEN @
                                ELSE With(@, as_bytes(id), to_vec(file))],
     res |-> Ok(Unit)]

\* tree.insert(id.as_bytes(), serde_json::to_vec(file)?)
FileRepoImpl_update(d, id, file) ==
    [db |-> [d EXCEPT !.files = With(@, as_bytes(id), to_vec(file))], res |-> Ok(Unit)]

\* a repo that answers a missing key with an empty file
FileRepoImpl_get_default(d, id) ==
    IF as_bytes(id) \in DOMAIN d.files
    THEN from_slice(d.files[as_bytes(id)])
    ELSE Ok(EncryptedFile("", ""))

\* tree.get(id.as_bytes())?, maybe_value?, serde_json::from_slice
FileRepoImpl_get(d, id) ==
    IF as_bytes(id) \in DOMAIN d.files
    THEN from_slice(d.files[as_bytes(id)])
    ELSE Err("FileRowMissing")

\* tree.remove(id.as_bytes())?
FileRepoImpl_delete(d, id) ==
    [db |-> [d EXCEPT !.files = Without(@, as_bytes(id))], res |-> Ok(Unit)]

\* a call and its result
Made(op, key, arg, res) == [op |-> op, key |-> key, arg |-> arg, res |-> res]

Logged(op, key, arg, res) ==
    /\ hist' = Append(hist, Made(op, key, arg, res))
    /\ UNCHANGED <<files, docs, clock, local, watermark, binaryDocs, ops, lastSync, run,
                   note, accounts, call, session, txn, index_db>>

FileUpdate ==
    \E id \in FileIds, file \in EncryptedFiles :
        /\ Len(hist) < MaxRepoCalls
        /\ db' = FileRepoImpl_update(db, id, file).db
        /\ Logged("update", id, file, FileRepoImpl_update(db, id, file).res)

FileGet ==
    \E id \in FileIds :
        /\ Len(hist) < MaxRepoCalls
        /\ db' = db
        /\ Logged("get", id, Unit, FileRepoImpl_get(db, id))

FileDelete ==
    \E id \in FileIds :
        /\ Len(hist) < MaxRepoCalls
        /\ db' = FileRepoImpl_delete(db, id).db
        /\ Logged("delete", id, Unit, FileRepoImpl_delete(db, id).res)

\* the account of the test insert_account, and another one
Account(username, k) ==
    [username |-> username,
     keys |-> [public_key |-> [n |-> <<k, 1>>, e |-> <<k, 2>>],
               private_key |-> [d |-> <<k, 3>>, p |-> <<k, 4>>, q |-> <<k, 5>>,
                                dmp1 |-> <<k, 6>>, dmq1 |-> <<k, 7>>, iqmp |-> <<k, 8>>]]]

Accounts == {Account("parth", 1), Account("other", 2)}

\* the table user_info: a row of the insert statement, keyed by id
UserInfoRow(id, p) ==
    [id |-> id, username |-> p[1], public_n |-> p[2], public_e |-> p[3],
     private_d |-> p[4], private_p |-> p[5], private_q |-> p[6],
     private_dmp1 |-> p[7], private_dmq1 |-> p[8], private_iqmp |-> p[9]]

\* a table with no key on id: every insert adds a row
KeyTaken_never(rows, id) == FALSE

\* the key of user_info: one row per id
KeyTaken(rows, id) == \E i \in DOMAIN rows : rows[i].id = id

\* insert into user_info (id, username, ...) values (0, ?1, ..., ?9), unwrapped
insert_account(d, account) ==
    LET params == <<account.username,
                    account.keys.public_key.n, account.keys.public_key.e,
                    account.keys.private_key.d, account.keys.private_key.p,
                    account.keys.private_key.q, account.keys.private_key.dmp1,
                    account.keys.private_key.dmq1, account.keys.private_key.iqmp>>
    IN IF KeyTaken(d.user_info, 0)
       THEN [db |-> d, res |-> Panic("DbError")]
       ELSE [db |-> [d EXCEPT !.user_info = Append(@, UserInfoRow(0, params))],
             res |-> Ok(Unit)]

\* select username, public_n, ... from user_info where id = 0: the first row
Selected(rows) ==
    LET hit == SelectSeq(rows, LAMBDA r : r.id = 0)
    IN [i \in DOMAIN hit |->
           <<hit[i].username, hit[i].public_n, hit[i].public_e, hit[i].private_d,
             hit[i].private_p, hit[i].private_q, hit[i].private_dmp1,
             hit[i].private_dmq1, hit[i].private_iqmp>>]

get_account(d) ==
    IF Selected(d.user_info) = <<>>
    THEN Err("RowMissing")
    ELSE LET row == Head(Selected(d.user_info))
         IN Ok([username |-> row[1],
                keys |-> [public_key |-> [n |-> row[2], e |-> row[3]],
                          private_key |-> [d |-> row[4], p |-> row[5], q |-> row[6],
                                           dmp1 |-> row[7], dmq1 |-> row[8],
                                           iqmp |-> row[9]]]])

InsertAccount ==
    \E account \in Accounts :
        /\ Len(hist) < MaxRepoCalls
        /\ db' = insert_account(db, account).db
        /\ Logged("insert_account", Unit, account, insert_account(db, account).res)

GetAccount ==
    /\ Len(hist) < MaxRepoCalls
    /\ db' = db
    /\ Logged("get_account", Unit, Unit, get_account(db))

\* ----------------------------------------------------------- crypto service
\* String::from_utf8: the chars of well-formed UTF-8
IsContinuation(x) == x \in 128 .. 191
IsLead(x) == x \in 194 .. 223

WellFormed(b) ==
    \A i \in DOMAIN b :
        \/ b[i] < 128
        \/ IsLead(b[i]) /\ i < Len(b) /\ IsContinuation(b[i + 1])
        \/ IsContinuation(b[i]) /\ i > 1 /\ IsLead(b[i - 1])

RECURSIVE Chars(_)
Chars(b) ==
    IF b = <<>> THEN <<>>
    ELSE IF Len(b) = 1 THEN <<b[1]>>
    ELSE IF Len(b) = 2 /\ IsLead(b[1]) THEN <<(b[1] - 192) * 64 + (b[2] - 128)>>
    ELSE LET m == Len(b) \div 2
             cut == IF IsContinuation(b[m + 1]) THEN m + 1 ELSE m
         IN Chars(SubSeq(b, 1, cut)) \o Chars(SubSeq(b, cut + 1, Len(b)))

from_utf8(b) == IF WellFormed(b) THEN Ok(Chars(b)) ELSE Err("FromUtf8Error")

\* base64::encode and base64::decode, standard alphabet with padding
Base64Char(v) ==
    CASE v < 26 -> 65 + v
      [] v \in 26 .. 51 -> 97 + (v - 26)
      [] v \in 52 .. 61 -> 48 + (v - 52)
      [] v = 62 -> 43
      [] v = 63 -> 47

PadChar == 61
NoValue == 64

Base64Value(c) ==
    CASE c \in 65 .. 90 -> c - 65
      [] c \in 97 .. 122 -> c - 71
      [] c \in 48 .. 57 -> c + 4
      [] c = 43 -> 62
      [] c = 47 -> 63
      [] OTHER -> NoValue

ByteAt(b, i) == IF i \in DOMAIN b THEN b[i] ELSE 0

Triple(b, g) == ByteAt(b, 3 * g - 2) * 65536 + ByteAt(b, 3 * g - 1) * 256 + ByteAt(b, 3 * g)

base64_encode(b) ==
    [j \in 1 .. 4 * ((Len(b) + 2) \div 3) |->
        LET g == (j + 3) \div 4
            k == j - 4 * (g - 1)
        IN IF k > Len(b) - 3 * (g - 1) + 1
           THEN PadChar
           ELSE Base64Char((Triple(b, g) \div (64 ^ (4 - k))) % 64)]

Padding(s) ==
    IF Len(s) >= 1 /\ s[Len(s)] = PadChar
    THEN IF Len(s) >= 2 /\ s[Len(s) - 1] = PadChar THEN 2 ELSE 1
    ELSE 0

SixBits(s, i) == IF s[i] = PadChar THEN 0 ELSE Base64Value(s[i])

Quad(s, g) ==
    SixBits(s, 4 * g - 3) * 262144 + SixBits(s, 4 * g - 2) * 4096
        + SixBits(s, 4 * g - 1) * 64 + SixBits(s, 4 * g)

base64_decode(s) ==
    LET data == Len(s) - Padding(s)
    IN IF \/ Len(s) % 4 # 0
          \/ \E i \in 1 .. data : Base64Value(s[i]) = NoValue
          \/ Padding(s) = 1 /\ Base64Value(s[data]) % 4 # 0
          \/ Padding(s) = 2 /\ Base64Value(s[data]) % 16 # 0
       THEN Err("DecodeError")
       ELSE Ok([j \in 1 .. 3 * (Len(s) \div 4) - Padding(s) |->
                   LET g == (j + 2) \div 3
                       k == j - 3 * (g - 1)
                   IN (Quad(s, g) \div (256 ^ (3 - k))) % 256])

Fill(n, x) == [i \in 1 .. n |-> x]

\* the random bytes OsRng returns: every byte of a draw has this value
Rnd == {1, 2}

\* RSAPrivateKey::new(&mut rng, bits): the key pairs generate_key may return.
\* The permutation of the blocks that a key pair defines stands for modular
\* exponentiation: the public and the private operation of one pair are
\* inverse, those of different pairs are not.
bits == 2048
ModulusBytes == bits \div 8

RsaKeys == {[n |-> 7, e |-> 3, d |-> 253], [n |-> 11, e |-> 5, d |-> 251]}

to_public_key(private_key) == [n |-> private_key.n, e |-> private_key.e]

RsaOp(n, x, block) == [i \in DOMAIN block |-> (block[i] + n * x) % 256]

\* PaddingScheme::PKCS1v15: 0x00 0x02, at least eight nonzero random bytes,
\* 0x00, the message
Pkcs1Overhead == 11

pkcs1v15_encrypt(public_key, r, msg) ==
    IF Len(msg) > ModulusBytes - Pkcs1Overhead
    THEN Err("MessageTooLong")
    ELSE Ok(RsaOp(public_key.n, public_key.e,
                  <<0, 2>> \o Fill(ModulusBytes - Len(msg) - 3, r) \o <<0>> \o msg))

pkcs1v15_decrypt(private_key, c) ==
    IF Len(c) # ModulusBytes
    THEN Err("Decryption")
    ELSE LET em == RsaOp(private_key.n, private_key.d, c)
             zeros == {i \in 3 .. Len(em) : em[i] = 0}
         IN IF em[1] # 0 \/ em[2] # 2 \/ zeros = {}
            THEN Err("Decryption")
            ELSE LET z == CHOOSE i \in zeros : \A j \in zeros : i <= j
                 IN IF z < Pkcs1Overhead
                    THEN Err("Decryption")
                    ELSE Ok(SubSeq(em, z + 1, Len(em)))

RsaImpl_encrypt(public_key, decrypted, r) ==
    LET encrypted_data == pkcs1v15_encrypt(public_key, r, as_bytes(decrypted.secret))
    IN IF ~encrypted_data.ok
       THEN encrypted_data
       ELSE Ok([garbage |-> base64_encode(encrypted_data.val)])

RsaImpl_decrypt(private_key, encrypted) ==
    LET data == base64_decode(encrypted.garbage)
        secret == pkcs1v15_decrypt(private_key, data.val)
        string == from_utf8(secret.val)
    IN IF ~data.ok THEN Err("ValueCorrupted")
       ELSE IF ~secret.ok THEN Err("DecryptionFailed")
       ELSE IF ~string.ok THEN Err("DecryptedValueMalformed")
       ELSE Ok([secret |-> string.val])

\* Aes256Gcm: a 32-byte key, a 12-byte nonce, a 16-byte tag after the
\* ciphertext.  The keystream and the tag stand for AES in counter mode and
\* GHASH: both are functions of the key and the nonce, the tag of the
\* ciphertext too.
KeyBytes == 32
NonceBytes == 12
TagBytes == 16

AesImpl_generate_key(r) == [key |-> base64_encode(Fill(KeyBytes, r))]

AesKeys == {AesImpl_generate_key(17), AesImpl_generate_key(200)}

Keystream(key, nonce, i) ==
    key[1 + ((i - 1) % Len(key))] + nonce[1 + ((i - 1) % Len(nonce))]

GcmTag(key, nonce, ct) ==
    Fill(TagBytes, (key[1] + nonce[1] + Len(ct) + ByteAt(ct, 1) + ByteAt(ct, Len(ct))) % 256)

aead_encrypt(key, nonce, msg) ==
    LET ct == [i \in DOMAIN msg |-> (msg[i] + Keystream(key, nonce, i)) % 256]
    IN ct \o GcmTag(key, nonce, ct)

aead_decrypt(key, nonce, data) ==
    IF Len(data) < TagBytes
    THEN Err("aead::Error")
    ELSE LET ct == SubSeq(data, 1, Len(data) - TagBytes)
         IN IF SubSeq(data, Len(data) - TagBytes + 1, Len(data)) # GcmTag(key, nonce, ct)
            THEN Err("aead::Error")
            ELSE Ok([i \in DOMAIN ct |-> (ct[i] + 512 - Keystream(key, nonce, i)) % 256])

\* an encrypt that returns a nonce it did not use
AesImpl_encrypt_other_nonce(aes_key, secret, r) ==
    LET key_bytes == base64_decode(aes_key.key)
    IN IF ~key_bytes.ok THEN Err("KeyCorrupted")
       ELSE IF Len(key_bytes.val) # KeyBytes THEN Panic("clone_from_slice")
       ELSE Ok([garbage |-> base64_encode(aead_encrypt(key_bytes.val, Fill(NonceBytes, r),
                                                       as_bytes(secret.secret))),
                nonce |-> base64_encode(Fill(NonceBytes, r + 1))])

AesImpl_encrypt(aes_key, secret, r) ==
    LET key_bytes == base64_decode(aes_key.key)
        nonce_bytes == Fill(NonceBytes, r)
    IN IF ~key_bytes.ok THEN Err("KeyCorrupted")
       ELSE IF Len(key_bytes.val) # KeyBytes THEN Panic("clone_from_slice")
       ELSE Ok([garbage |-> base64_encode(aead_encrypt(key_bytes.val, nonce_bytes,
                                                       as_bytes(secret.secret))),
                nonce |-> base64_encode(nonce_bytes)])

AesImpl_decrypt(aes_key, encrypted) ==
    LET key_bytes == base64_decode(aes_key.key)
        decoded_nonce == base64_decode(encrypted.nonce)
        ciphertext == base64_decode(encrypted.garbage)
        secret == aead_decrypt(key_bytes.val, decoded_nonce.val, ciphertext.val)
        string == from_utf8(secret.val)
    IN IF ~key_bytes.ok THEN Panic("unwrap")
       ELSE IF Len(key_bytes.val) # KeyBytes THEN Panic("clone_from_slice")
       ELSE IF ~decoded_nonce.ok THEN Err("ValueCorrupted")
       ELSE IF Len(decoded_nonce.val) # NonceBytes THEN Panic("clone_from_slice")
       ELSE IF ~ciphertext.ok THEN Err("ValueCorrupted")
       ELSE IF ~secret.ok THEN Err("DecryptionFailed")
       ELSE IF ~string.ok THEN Err("DecryptedValueMalformed")
       ELSE Ok([secret |-> string.val])

\* the plaintexts: "", "Secret", a string of 245 bytes (122 two-byte chars and
\* a one-byte char), and strings of 246 bytes in one-byte and in two-byte chars
Secrets ==
    {<<>>, <<83, 101, 99, 114, 101, 116>>,
     Fill((ModulusBytes - Pkcs1Overhead) \div 2, 233) \o <<97>>,
     Fill(ModulusBytes - Pkcs1Overhead + 1, 97),
     Fill((ModulusBytes - Pkcs1Overhead + 1) \div 2, 233)}

\* the results of the encrypt calls made so far
Encrypted(op) ==
    {hist[i].res.val : i \in {j \in DOMAIN hist : hist[j].op = op /\ hist[j].res.ok}}

RsaEncrypt ==
    \E key \in RsaKeys, secret \in Secrets, r \in Rnd :
        /\ Len(hist) < MaxCryptoCalls
        /\ db' = db
        /\ Logged("rsa_encrypt", key, [secret |-> secret],
                  RsaImpl_encrypt(to_public_key(key), [secret |-> secret], r))

RsaDecrypt ==
    \E key \in RsaKeys, encrypted \in Encrypted("rsa_encrypt") :
        /\ Len(hist) < MaxCryptoCalls
        /\ db' = db
        /\ Logged("rsa_decrypt", key, encrypted, RsaImpl_decrypt(key, encrypted))

AesEncrypt ==
    \E key \in AesKeys, secret \in Secrets, r \in Rnd :
        /\ Len(hist) < MaxCryptoCalls
        /\ db' = db
        /\ Logged("aes_encrypt", key, [secret |-> secret],
                  AesImpl_encrypt(key, [secret |-> secret], r))

AesDecrypt ==
    \E key \in AesKeys, encrypted \in Encrypted("aes_encrypt") :
        /\ Len(hist) < MaxCryptoCalls
        /\ db' = db
        /\ Logged("aes_decrypt", key, encrypted, AesImpl_decrypt(key, encrypted))

\* Sha256::digest: 32 bytes, each a function of the length and of every byte of
\* the input with its position; Mix works on the halves of its argument
DigestBytes == 32

RECURSIVE Mix(_, _)
Mix(b, from) ==
    IF b = <<>> THEN 0
    ELSE IF Len(b) = 1 THEN (from * b[1]) % 65536
    ELSE (Mix(SubSeq(b, 1, Len(b) \div 2), from)
              + Mix(SubSeq(b, (Len(b) \div 2) + 1, Len(b)), from + (Len(b) \div 2))) % 65536

Sha256_digest(b) ==
    LET plain == Mix(b, 0)
        weighted == Mix(b, 1)
    IN [i \in 1 .. DigestBytes |-> (Len(b) + i + i * weighted + (DigestBytes - i) * plain) % 256]

\* Hashes::SHA2_256: the DigestInfo prefix of the encoded message
Sha256Prefix == <<48, 49, 48, 13, 6, 9, 96, 134, 72, 1, 101, 3, 4, 2, 1, 5, 0, 4, 32>>

\* PaddingScheme::PKCS1v15 of a signature: 0x00 0x01, bytes 0xff, 0x00, the
\* prefix, the digest
EncodedMessage(hashed) ==
    <<0, 1>> \o Fill(ModulusBytes - Len(Sha256Prefix) - Len(hashed) - 3, 255) \o <<0>>
        \o Sha256Prefix \o hashed

pkcs1v15_sign(private_key, hashed) ==
    IF ModulusBytes < Len(Sha256Prefix) + Len(hashed) + Pkcs1Overhead
    THEN Err("MessageTooLong")
    ELSE Ok(RsaOp(private_key.n, private_key.d, EncodedMessage(hashed)))

\* a verification that looks at the length of the signature only
pkcs1v15_verify_length_only(public_key, hashed, sig) ==
    IF Len(sig) # ModulusBytes THEN Err("Verification") ELSE Ok(Unit)

pkcs1v15_verify(public_key, hashed, sig) ==
    IF \/ ModulusBytes < Len(Sha256Prefix) + Len(hashed) + Pkcs1Overhead
       \/ Len(sig) # ModulusBytes
       \/ RsaOp(public_key.n, public_key.e, sig) # EncodedMessage(hashed)
    THEN Err("Verification")
    ELSE Ok(Unit)

RsaImpl_sign(private_key, to_sign) ==
    LET digest == Sha256_digest(as_bytes(to_sign))
        signature == pkcs1v15_sign(private_key, digest)
    IN IF ~signature.ok
       THEN signature
       ELSE Ok([content |-> to_sign, signature |-> base64_encode(signature.val)])

RsaImpl_verify(public_key, signed_value) ==
    LET digest == Sha256_digest(as_bytes(signed_value.content))
        signature == base64_decode(signed_value.signature)
    IN IF ~signature.ok THEN Err("SignatureCorrupted")
       ELSE IF ~pkcs1v15_verify(public_key, digest, signature.val).ok
       THEN Err("VerificationFailed")
       ELSE Ok(Unit)

\* the strings signed: "", "Test", "Tesu", and a string of 246 bytes
Messages ==
    {<<>>, <<84, 101, 115, 116>>, <<84, 101, 115, 117>>,
     Fill((ModulusBytes - Pkcs1Overhead + 1) \div 2, 233)}

\* the SignedValues the sign calls made so far returned
Signed == {hist[i].res.val : i \in {j \in DOMAIN hist : hist[j].op = "sign" /\ hist[j].res.ok}}

\* a signature changed after signing: one char replaced by another char of the
\* alphabet or by a char outside it, the last char replaced, four chars cut or
\* added, a zero byte put before the signature
Forged(sig) ==
    {[sig EXCEPT ![1] = Base64Char((Base64Value(@) + 1) % 64)],
     [sig EXCEPT ![1] = 42],
     [sig EXCEPT ![Len(sig) - Padding(sig)] = Base64Char((Base64Value(@) + 1) % 64)],
     SubSeq(sig, 5, Len(sig)),
     <<65, 65, 65, 65>> \o sig}
        \cup (IF base64_decode(sig).ok
              THEN {base64_encode(<<0>> \o base64_decode(sig).val)}
              ELSE {})

\* a SignedValue whose content or signature was changed after signing; the
\* signature may be the one of another SignedValue
Tampered(sv) ==
    {[sv EXCEPT !.content = m] : m \in Messages \ {sv.content}}
        \cup {[sv EXCEPT !.signature = x] : x \in Forged(sv.signature)}
        \cup {[sv EXCEPT !.signature = o.signature] :
                  o \in {x \in Signed : x.signature # sv.signature}}

RsaSign ==
    \E key \in RsaKeys, to_sign \in Messages :
        /\ Len(hist) < MaxSignCalls
        /\ db' = db
        /\ Logged("sign", key, to_sign, RsaImpl_sign(key, to_sign))

RsaVerify ==
    \E key \in RsaKeys, sv \in Signed :
        \E signed_value \in {sv} \cup Tampered(sv) :
            /\ Len(hist) < MaxSignCalls
            /\ db' = db
            /\ Logged("verify", key, signed_value,
                      RsaImpl_verify(to_public_key(key), signed_value))

RepoNext == FileUpdate \/ FileGet \/ FileDelete \/ InsertAccount \/ GetAccount

CryptoNext == RsaEncrypt \/ RsaDecrypt \/ AesEncrypt \/ AesDecrypt

\* a device with a new database
RepoInit ==
    /\ files = [id \in {Root} |-> InitRow(id)]
    /\ docs = [id \in {Root} |-> {}]
    /\ clock = DocId + 1
    /\ local = [c \in Clients |-> [id \in {Root} |-> FromServer(InitRow(id), {})]]
    /\ watermark = [c \in Clients |-> DocId + 1]
    /\ binaryDocs = FALSE
    /\ ops = 0
    /\ lastSync = 0
    /\ run = NoRun
    /\ note = NoNote
    /\ accounts = OwnAccount
    /\ call = NoCall
    /\ session = [c \in Clients |-> NoSession]
    /\ db = EmptyDb
    /\ hist = <<>>
    /\ txn = NoTxn
    /\ index_db = NoFiles

RepoSpec == RepoInit /\ [][RepoNext]_vars

CryptoSpec == RepoInit /\ [][CryptoNext]_vars

SignNext == RsaSign \/ RsaVerify

\* ------------------------------------------------- client: POST /new-account
\* What send() returns: an error, or a response with a status and a body.  A
\* body is JSON or not; a JSON body is the list of its fields by name.
Statuses == {200, 201, 299, 300, 400, 401, 409, 500}

ErrorCodes == {"", "ok", "invalid_auth", "expired_auth", "username_taken", "internal_error"}

Body(json, fields) == [json |-> json, fields |-> fields]

Bodies ==
    {Body(FALSE, <<>>), Body(TRUE, <<>>), Body(TRUE, <<<<"message", "invalid_auth">>>>)}
        \cup {Body(TRUE, <<<<"error_code", c>>>>) : c \in ErrorCodes}

Responses ==
    {[sent |-> FALSE, status |-> 0, body |-> Body(FALSE, <<>>)]}
        \cup {[sent |-> TRUE, status |-> st, body |-> b] : st \in Statuses, b \in Bodies}

\* response.json::<NewAccountResponse>(): the struct has the one field error_code
json_NewAccountResponse(body) ==
    IF body.json /\ HasField(body.fields, "error_code")
    THEN Ok([error_code |-> Field(body.fields, "error_code")])
    ELSE Err("ReqwestError")

\* new_account: send()?, then the match on the status and on the error_code of
\* the decoded body; the body is decoded before any arm is tried
lockbook_api_new_account_send(response) ==
    IF ~response.sent THEN "SendFailed"
    ELSE IF ~json_NewAccountResponse(response.body).ok THEN "SendFailed"
    ELSE lockbook_api_new_account(response.status,
                                  json_NewAccountResponse(response.body).val.error_code)

NewAccountCall ==
    \E response \in Responses :
        /\ Len(hist) < MaxApiCalls
        /\ db' = db
        /\ Logged("new_account", Unit, response, lockbook_api_new_account_send(response))

ApiNext == NewAccountCall

ApiSpec == RepoInit /\ [][ApiNext]_vars

SignSpec == RepoInit /\ [][SignNext]_vars

\* ------------------------------------------------ claims on the local database
\* the call made in this step
Call == hist'[Len(hist')]

\* what the calls of h wrote under id: the file of the last update of id when
\* no delete of id followed it
RECURSIVE Written(_, _)
Written(h, id) ==
    IF h = <<>> THEN Err("FileRowMissing")
    ELSE IF h[Len(h)].op = "update" /\ h[Len(h)].key = id THEN Ok(h[Len(h)].arg)
    ELSE IF h[Len(h)].op = "delete" /\ h[Len(h)].key = id THEN Err("FileRowMissing")
    ELSE Written(SubSeq(h, 1, Len(h) - 1), id)

\* C27 as stated: after every call, get(id) returns the file of the most
\* recent update of id that no delete of id followed, a get call made then
\* returned it, and an update or a delete of one id leaves what get returns
\* for every other id as it was.
LastWriteWins ==
    [][hist' # hist =>
          /\ \A id \in FileIds :
                 Written(hist', id).ok => FileRepoImpl_get(db', id) = Written(hist', id)
          /\ Call.op = "get" =>
                 (Written(hist, Call.key).ok => Call.res = Written(hist, Call.key))
          /\ Call.op \in {"update", "delete"} =>
                 \A id \in FileIds \ {Call.key} :
                     FileRepoImpl_get(db', id) = FileRepoImpl_get(db, id)]_vars

\* an id was updated twice with different files and get returned the second
LastWriteWinsWitness ==
    /\ Len(hist) = 3
    /\ hist[1].op = "update" /\ hist[2].op = "update" /\ hist[3].op = "get"
    /\ hist[1].key = hist[3].key /\ hist[2].key = hist[3].key
    /\ hist[1].arg # hist[2].arg
    /\ hist[3].res = Ok(hist[2].arg)

\* C28 as stated: get(id) returns Err(FileRowMissing) when id was never
\* updated or was deleted after its last update, and delete(id) of an id the
\* store does not hold returns Ok and leaves the store unchanged.
MissingKeyIsError ==
    [][hist' # hist =>
          /\ \A id \in FileIds :
                 ~Written(hist', id).ok => FileRepoImpl_get(db', id) = Err("FileRowMissing")
          /\ (Call.op = "get" /\ ~Written(hist, Call.key).ok) =>
                 Call.res = Err("FileRowMissing")
          /\ (Call.op = "delete" /\ ~Written(hist, Call.key).ok) =>
                 /\ Call.res = Ok(Unit)
                 /\ db' = db]_vars

\* a file was updated and deleted, get returned FileRowMissing, and a delete
\* of it returns Ok with the store as it is
MissingKeyIsErrorWitness ==
    /\ Len(hist) = 3
    /\ hist[1].op = "update" /\ hist[2].op = "delete" /\ hist[3].op = "get"
    /\ hist[1].key = hist[2].key /\ hist[2].key = hist[3].key
    /\ hist[3].res = Err("FileRowMissing")
    /\ FileRepoImpl_delete(db, hist[1].key) = [db |-> db, res |-> Ok(Unit)]

\* C29 as stated: insert_account(a) on a store with no account returns Ok and
\* get_account then returns an account equal to a; get_account on a store
\* with no account returns RowMissing; the table never holds more than one
\* row, and its row has id 0.
AccountRoundTrip ==
    [][hist' # hist =>
          /\ (Call.op = "insert_account" /\ db.user_info = <<>>) =>
                 /\ Call.res = Ok(Unit)
                 /\ get_account(db') = Ok(Call.arg)
          /\ (Call.op = "get_account" /\ db.user_info = <<>>) =>
                 Call.res = Err("RowMissing")
          /\ (Call.op = "get_account" /\ db.user_info # <<>>) =>
                 \E i \in DOMAIN hist :
                     /\ hist[i].op = "insert_account" /\ hist[i].res = Ok(Unit)
                     /\ Call.res = Ok(hist[i].arg)
          /\ Len(db'.user_info) <= 1
          /\ \A i \in DOMAIN db'.user_info : db'.user_info[i].id = 0]_vars

\* an account was inserted, the insert of another account was refused, and
\* get_account returned the first
AccountRoundTripWitness ==
    /\ Len(hist) = 3
    /\ hist[1].op = "insert_account" /\ hist[1].res = Ok(Unit)
    /\ hist[2].op = "insert_account" /\ hist[2].arg # hist[1].arg
    /\ hist[3].op = "get_account" /\ hist[3].res = Ok(hist[1].arg)
    /\ Len(db.user_info) = 1

\* the bytes of the plaintext of an encrypt call
SecretBytes(c) == Len(as_bytes(c.arg.secret))

\* the decrypt call d was made with the key and the result of the encrypt
\* call c
DecryptOf(c, d, enc, dec) ==
    /\ c.op = enc /\ d.op = dec
    /\ c.res.ok /\ d.arg = c.res.val
    /\ d.key = c.key

\* C30 as stated: every RSA and every AES encrypt call returns a value that
\* decrypt, with the private key of the public key or with the same key,
\* turns into the plaintext.
EncryptDecryptRoundTrip ==
    [][hist' # hist =>
          /\ Call.op = "rsa_encrypt" =>
                 /\ Call.res.ok
                 /\ RsaImpl_decrypt(Call.key, Call.res.val) = Ok(Call.arg)
          /\ Call.op = "aes_encrypt" =>
                 /\ Call.res.ok
                 /\ AesImpl_decrypt(Call.key, Call.res.val) = Ok(Call.arg)]_vars

\* C30 as amended: for the keys generate_key returns, an RSA encrypt call of a
\* plaintext of at most 245 bytes (the 256 bytes of the modulus less the 11
\* of the padding) returns a value that decrypt with the private key turns
\* into the plaintext, and of a longer plaintext returns an error; an AES
\* encrypt call returns for every plaintext a value that decrypt with the
\* same key turns into the plaintext; and a decrypt call made with the key and
\* the result of an encrypt call returned its plaintext.
RoundTripWithinBlock ==
    [][hist' # hist =>
          /\ Call.op = "rsa_encrypt" =>
                 IF SecretBytes(Call) <= ModulusBytes - Pkcs1Overhead
                 THEN /\ Call.res.ok
                      /\ RsaImpl_decrypt(Call.key, Call.res.val) = Ok(Call.arg)
                 ELSE Call.res = Err("MessageTooLong")
          /\ Call.op = "aes_encrypt" =>
                 /\ Call.res.ok
                 /\ AesImpl_decrypt(Call.key, Call.res.val) = Ok(Call.arg)
          /\ \A i \in DOMAIN hist :
                 (\/ DecryptOf(hist[i], Call, "rsa_encrypt", "rsa_decrypt")
                  \/ DecryptOf(hist[i], Call, "aes_encrypt", "aes_decrypt"))
                     => Call.res = Ok(hist[i].arg)]_vars

\* a plaintext of 245 bytes was encrypted with RSA, and a plaintext of 246
\* bytes was encrypted with AES and decrypted with the same key
RoundTripWithinBlockWitness ==
    /\ Len(hist) = 3
    /\ hist[1].op = "rsa_encrypt" /\ hist[1].res.ok
    /\ SecretBytes(hist[1]) = ModulusBytes - Pkcs1Overhead
    /\ DecryptOf(hist[2], hist[3], "aes_encrypt", "aes_decrypt")
    /\ SecretBytes(hist[2]) = ModulusBytes - Pkcs1Overhead + 1
    /\ hist[3].res = Ok(hist[2].arg)
\* the sign calls made so far under the key pair k
SignedBy(k) ==
    {hist[i].res.val :
        i \in {j \in DOMAIN hist : hist[j].op = "sign" /\ hist[j].key = k /\ hist[j].res.ok}}

\* C31 as stated: for every key pair and every string, sign returns a
\* SignedValue whose content is the string and which verify accepts under the
\* public key of the pair; verify returns an error for a SignedValue whose
\* content or signature was changed after signing, and for one checked under
\* the public key of another pair.  (A changed value that is the SignedValue
\* sign returns for its content under another pair is a signed value of that
\* pair.)
SignVerifyRoundTrip ==
    [][/\ Call.op = "sign" =>
           /\ Call.res.ok
           /\ Call.res.val.content = Call.arg
           /\ RsaImpl_verify(to_public_key(Call.key), Call.res.val) = Ok(Unit)
           /\ \A other \in RsaKeys \ {Call.key} :
                  ~RsaImpl_verify(to_public_key(other), Call.res.val).ok
           /\ \A t \in Tampered(Call.res.val), k \in RsaKeys :
                  t # RsaImpl_sign(k, t.content).val =>
                      ~RsaImpl_verify(to_public_key(k), t).ok
       /\ Call.op = "verify" =>
           (Call.res.ok <=> Call.arg \in SignedBy(Call.key))]_vars

\* a SignedValue was verified under its key, and verify has answered
\* VerificationFailed to a changed content and SignatureCorrupted to a changed
\* signature
SignVerifyRoundTripWitness ==
    /\ \E i \in DOMAIN hist :
           hist[i].op = "verify" /\ hist[i].res.ok /\ hist[i].arg \in SignedBy(hist[i].key)
    /\ \E i \in DOMAIN hist :
           /\ hist[i].op = "verify" /\ hist[i].res = Err("VerificationFailed")
           /\ \E sv \in Signed : sv.signature = hist[i].arg.signature
                                  /\ sv.content # hist[i].arg.content

\* the response was received and its body decodes to a NewAccountResponse
Decoded(response) ==
    response.sent /\ response.body.json /\ HasField(response.body.fields, "error_code")

\* the outcome the table of the claim gives for a status and an error_code
Outcome(status, error_code) ==
    CASE status >= 200 /\ status <= 299 -> "Ok"
      [] status = 401 /\ error_code = "invalid_auth" -> "InvalidAuth"
      [] status = 401 /\ error_code = "expired_auth" -> "ExpiredAuth"
      [] status = 409 /\ error_code = "username_taken" -> "UsernameTaken"
      [] OTHER -> "Unspecified"

\* C32 as stated: new_account maps every response to one outcome: SendFailed
\* when the request could not be sent or the body does not decode; otherwise
\* Ok for every 2xx status whatever the error_code, InvalidAuth for 401 with
\* invalid_auth, ExpiredAuth for 401 with expired_auth, UsernameTaken for 409
\* with username_taken, and Unspecified for every other pair.
NewAccountOutcomes ==
    \A i \in DOMAIN hist :
        hist[i].op = "new_account" =>
            IF Decoded(hist[i].arg)
            THEN hist[i].res = Outcome(hist[i].arg.status,
                                       Field(hist[i].arg.body.fields, "error_code"))
            ELSE hist[i].res = "SendFailed"

\* a 2xx response with the error code username_taken was Ok, and a 2xx
\* response whose body has no error_code was SendFailed
NewAccountOutcomesWitness ==
    /\ \E i \in DOMAIN hist :
           /\ hist[i].res = "Ok" /\ hist[i].arg.status = 201
           /\ Field(hist[i].arg.body.fields, "error_code") = "username_taken"
    /\ \E i \in DOMAIN hist :
           /\ hist[i].res = "SendFailed" /\ hist[i].arg.status = 200
           /\ hist[i].arg.body.json /\ ~HasField(hist[i].arg.body.fields, "error_code")

\* --------------------------------------- claims on the version-checked updates
\* the request of the step is a version-checked statement for a row of the table
Addressed(op) == Called(op) /\ call'.req.id \in DOMAIN files

\* the row is not deleted, has the version the request carries and the file
\* type it expects
Admitted(row, req) ==
    /\ ~row.deleted
    /\ row.metadata_version = req.old_metadata_version
    /\ row.is_folder = req.is_folder

\* the row after the statement op of the request was applied at the clock now
Applied(op, row, req, now) ==
    CASE op = "rename_file" -> [row EXCEPT !.name = req.name, !.metadata_version = now]
      [] op = "move_file" -> [row EXCEPT !.parent = req.parent, !.metadata_version = now]
      [] op = "delete_file" -> [row EXCEPT !.deleted = TRUE, !.metadata_version = now]
      [] op = "change_document_content_version" ->
             [row EXCEPT !.metadata_version = now, !.content_version = now]

\* no request changes a row it does not address
OtherRowsKept ==
    call' # call =>
        \A x \in (DOMAIN files) \ {call'.req.id} : x \in DOMAIN files' /\ files'[x] = files[x]

\* the statement would break a constraint of the table: the name and parent
\* of another row, or a parent that has no row
BreaksConstraint(op, rows, req) ==
    \/ op = "rename_file" /\ PathTaken(rows, req.id, rows[req.id].parent, req.name)
    \/ op = "move_file" /\ PathTaken(rows, req.id, req.parent, rows[req.id].name)
    \/ op = "move_file" /\ req.parent \notin DOMAIN rows

\* C33 as stated: move_file, rename_file, delete_file and
\* change_document_content_version change the addressed row if and only if it
\* is not deleted, has the version the request carries and the expected file
\* type; in every other case the row keeps all its values and the call
\* returns an error; no call changes any other row.
VersionCheckedIff ==
    [][/\ OtherRowsKept
       /\ \A op \in Versioned :
              Addressed(op) =>
                  IF Admitted(files[call'.req.id], call'.req)
                  THEN /\ call'.res = "Ok"
                       /\ files'[call'.req.id]
                              = Applied(op, files[call'.req.id], call'.req, clock)
                  ELSE /\ call'.res # "Ok"
                       /\ files'[call'.req.id] = files[call'.req.id]]_vars

\* C33 as amended: the addressed row is changed if and only if it is not
\* deleted, has the version the request carries and the expected file type,
\* and the change breaks no constraint of the table (a rename or a move onto
\* the parent and name of another row, a move under a parent that has no row);
\* in every other case the row keeps all its values and the call returns an
\* error; no call changes any other row.
VersionCheckedUpdate ==
    [][/\ OtherRowsKept
       /\ \A op \in Versioned :
              Addressed(op) =>
                  IF /\ Admitted(files[call'.req.id], call'.req)
                     /\ ~BreaksConstraint(op, files, call'.req)
                  THEN /\ call'.res = "Ok"
                       /\ files'[call'.req.id]
                              = Applied(op, files[call'.req.id], call'.req, clock)
                  ELSE /\ call'.res # "Ok"
                       /\ files' = files]_vars

\* a rename that the row's state, version and type admit was refused for the
\* name of a sibling, after another request had changed the table
VersionCheckedUpdateWitness ==
    /\ call.req.op = "rename_file" /\ call.res = "PathTaken"
    /\ call.req.id \in DOMAIN files
    /\ Admitted(files[call.req.id], call.req)
    /\ \E x \in DOMAIN files : files[x].metadata_version > DocId + 1

\* the reasons for which the request is rejected on the row
Reasons(row, req) ==
    {e \in {"WrongFileType", "Deleted", "IncorrectOldVersion"} :
        \/ e = "WrongFileType" /\ row.is_folder # req.is_folder
        \/ e = "Deleted" /\ row.deleted
        \/ e = "IncorrectOldVersion" /\ row.metadata_version # req.old_metadata_version}

\* C34: a version-checked mutation that is rejected for several reasons
\* returns WrongFileType if the stored file type differs from the expected
\* one, otherwise Deleted if the row was deleted, otherwise
\* IncorrectOldVersion if the stored version differs from the request's; Ok is
\* returned only when none of the three applies.
RejectionPriority ==
    [][\A op \in Versioned :
          Addressed(op) =>
              LET why == Reasons(files[call'.req.id], call'.req)
              IN /\ "WrongFileType" \in why => call'.res = "WrongFileType"
                 /\ ("Deleted" \in why /\ "WrongFileType" \notin why) =>
                        call'.res = "Deleted"
                 /\ why = {"IncorrectOldVersion"} => call'.res = "IncorrectOldVersion"
                 /\ call'.res = "Ok" => why = {}]_vars

\* a request that names a deleted row with another file type and another
\* version was answered WrongFileType
RejectionPriorityWitness ==
    /\ call.req.op \in Versioned /\ call.res = "WrongFileType"
    /\ call.req.id \in DOMAIN files
    /\ Reasons(files[call.req.id], call.req)
           = {"WrongFileType", "Deleted", "IncorrectOldVersion"}

\* what change_document_content_version returns for the request of the step:
\* (old_content_version, new_metadata_version)
Returned ==
    change_document_content_version(files, clock, call'.req.id,
                                    call'.req.old_metadata_version)

\* C38: a successful move_file, rename_file or delete_file leaves the
\* content_version of the file as it is; a successful
\* change_document_content_version sets content_version and metadata_version
\* to the same value, the one it returns as the new version, and returns the
\* content_version the file had; a content change addressed to a folder
\* returns WrongFileType and changes neither version.
ContentVersionOnContentChange ==
    [][/\ \A op \in {"move_file", "rename_file", "delete_file"} :
              (Called(op) /\ call'.res = "Ok") =>
                  files'[call'.req.id].content_version = files[call'.req.id].content_version
       /\ (Called("change_document_content_version") /\ call'.res = "Ok") =>
              /\ Returned.res = "Ok"
              /\ files'[call'.req.id].content_version = Returned.ver
              /\ files'[call'.req.id].metadata_version = Returned.ver
              /\ Returned.ver = clock
              /\ Returned.oldcv = files[call'.req.id].content_version
       /\ (Addressed("change_document_content_version") /\ files[call'.req.id].is_folder) =>
              /\ call'.res = "WrongFileType"
              /\ files'[call'.req.id].content_version = files[call'.req.id].content_version
              /\ files'[call'.req.id].metadata_version
                     = files[call'.req.id].metadata_version]_vars

\* a content change succeeded on a document whose metadata_version an earlier
\* request had written: both versions are the clock's reading
ContentVersionOnContentChangeWitness ==
    /\ call.req.op = "change_document_content_version" /\ call.res = "Ok"
    /\ files[call.req.id].content_version = clock
    /\ files[call.req.id].metadata_version = clock
    /\ call.req.old_metadata_version > DocId + 1

\* ------------------------------------------- server: requests in transactions
\* Every function of file_index_repo takes the transaction it runs in.  A
\* transaction reads NOW() as the time it began; its UPDATE locks the row it
\* addresses (WITH old AS (SELECT ... FOR UPDATE)) until the transaction ends,
\* a second statement on the row waits for the lock and then reads the row as
\* committed, and a statement that writes a (parent, name) pair an open
\* transaction is writing or giving up waits for that transaction.  What a
\* transaction wrote is seen by the others when it commits.
Txns == {1, 2}

\* the two connections send what a device that has synced the file holds: the
\* file's type and its committed metadata_version
TxnIds == {1, DocId} \cap DOMAIN files

TxnRequests ==
    UNION {LET f == files[id].is_folder
               v == files[id].metadata_version
           IN {Request("move_file", id, v, f, p, PlainName(0), Owner) :
                   p \in {Root, 1} \ {id}}
              \cup {Request("rename_file", id, v, f, 0, nm, Owner) : nm \in CallNames}
              \cup {Request("delete_file", id, v, f, 0, PlainName(0), Owner),
                    Request("change_document_content_version", id, v, FALSE, 0,
                            PlainName(0), Owner)} : id \in TxnIds}

\* the statement of a request, run on the committed rows with the
\* transaction's reading of NOW()
Statement(rows, now, req) ==
    CASE req.op = "move_file" ->
             move_file(rows, now, req.id, req.old_metadata_version, req.is_folder, req.parent)
      [] req.op = "rename_file" ->
             rename_file(rows, now, req.id, req.old_metadata_version, req.is_folder, req.name)
      [] req.op = "delete_file" ->
             delete_file(rows, now, req.id, req.old_metadata_version, req.is_folder)
      [] req.op = "change_document_content_version" ->
             change_document_content_version(rows, now, req.id, req.old_metadata_version)

KeyOf(row) == <<row.parent, row.name>>

\* the statement of t has to wait: an open transaction holds the lock of its
\* row, or is changing a (parent, name) pair the statement would write
Waits(t) ==
    LET mine == Statement(files, txn[t].now, txn[t].req).rows[txn[t].req.id]
    IN \E u \in (DOMAIN txn) \ {t} :
           /\ txn[u].st = "executed"
           /\ \/ txn[u].req.id = txn[t].req.id
              \/ /\ KeyOf(txn[u].old) # KeyOf(txn[u].row)
                 /\ KeyOf(mine) \in {KeyOf(txn[u].old), KeyOf(txn[u].row)}

TxnFrame ==
    UNCHANGED <<docs, binaryDocs, ops, lastSync, run, note, accounts, call, session, db,
                hist, index_db>>

\* a connection begins a transaction for a request
Begin(t) ==
    /\ t \notin DOMAIN txn
    /\ \E req \in TxnRequests :
           txn' = With(txn, t, [st |-> "begun", now |-> clock, req |-> req, res |-> "",
                               old |-> files[req.id], row |-> files[req.id], saw |-> {}])
    /\ UNCHANGED <<files, clock, local, watermark>>
    /\ TxnFrame

\* the statement runs: it answers, and holds its row until the transaction ends
Execute(t) ==
    /\ t \in DOMAIN txn
    /\ txn[t].st = "begun"
    /\ ~Waits(t)
    /\ LET r == Statement(files, txn[t].now, txn[t].req)
       IN txn' = [txn EXCEPT ![t] = [@ EXCEPT !.st = "executed", !.res = r.res,
                                               !.old = files[txn[t].req.id],
                                               !.row = r.rows[txn[t].req.id],
                                               !.saw = {u \in DOMAIN txn : txn[u].st = "done"}]]
    /\ UNCHANGED <<files, clock, local, watermark>>
    /\ TxnFrame

\* the transaction ends: what its statement wrote is committed
Commit(t) ==
    /\ t \in DOMAIN txn
    /\ txn[t].st = "executed"
    /\ files' = [files EXCEPT ![txn[t].req.id] = txn[t].row]
    /\ txn' = [txn EXCEPT ![t].st = "done"]
    /\ UNCHANGED <<clock, local, watermark>>
    /\ TxnFrame

\* a device with no local change asks for the updates since its watermark and
\* takes them in; the watermark becomes the largest version it has received
GetUpdates(c) ==
    LET upd == get_updates(files, Owner, watermark[c])
    IN /\ local' = [local EXCEPT ![c] = Pulled(local[c], files, docs, upd, FALSE, TopId)]
       /\ watermark' = [watermark EXCEPT
                           ![c] = Max({@} \cup {files[id].metadata_version : id \in upd})]
       /\ UNCHANGED <<files, clock, txn>>
       /\ TxnFrame

TxnNext ==
    \/ \E t \in Txns : Begin(t) \/ Execute(t) \/ Commit(t)
    \/ \E c \in Clients : GetUpdates(c)
    \/ Tick

TxnSpec == ServerInit /\ [][TxnNext]_vars

\* ------------------------------------------- claims on the racing transactions
\* two transactions that have ended, t the one whose statement ran first, both
\* with the same file id, the same old_metadata_version and the same type
Raced(t, u) ==
    /\ {t, u} \subseteq DOMAIN txn
    /\ txn[t].st = "done" /\ txn[u].st = "done"
    /\ t \in txn[u].saw
    /\ txn[u].req.id = txn[t].req.id
    /\ txn[u].req.old_metadata_version = txn[t].req.old_metadata_version
    /\ txn[u].req.is_folder = txn[t].req.is_folder

Lost(u) == txn[u].res \in {"IncorrectOldVersion", "Deleted"} /\ txn[u].row = txn[u].old

\* C35 as stated: of two transactions with a version-checked mutation of the
\* same file and the same old_metadata_version, at most one is applied and
\* returns Ok; the other returns IncorrectOldVersion or Deleted and changes
\* nothing.
RaceHasOneWinner ==
    \A t \in Txns, u \in Txns :
        Raced(t, u) /\ txn[t].res = "Ok" => Lost(u)

\* what holds of C35: the second transaction is rejected when the first
\* one deleted the file or began at a reading of NOW() other than the version
\* both requests carry; when the first one began in the millisecond of that
\* version and did not delete the file, the version check passes again and the
\* second one is applied as a request sent alone would be.
RaceDecidedByVersion ==
    \A t \in Txns, u \in Txns :
        Raced(t, u) /\ txn[t].res = "Ok" =>
            IF txn[t].req.op = "delete_file"
            THEN txn[u].res = "Deleted" /\ txn[u].row = txn[u].old
            ELSE IF txn[t].now # txn[t].req.old_metadata_version
            THEN txn[u].res = "IncorrectOldVersion" /\ txn[u].row = txn[u].old
            ELSE /\ txn[u].old.metadata_version = txn[u].req.old_metadata_version
                 /\ txn[u].res \in {"Ok", "PathTaken", "ParentDoesNotExist"}

\* both requests were open at once, the first was applied after the clock
\* had moved, and the second waited for it and was rejected
RaceDecidedByVersionWitness ==
    \E t \in Txns, u \in Txns :
        /\ Raced(t, u)
        /\ txn[t].res = "Ok"
        /\ txn[u].now >= txn[t].now
        /\ txn[t].now > txn[t].req.old_metadata_version
        /\ txn[u].res = "IncorrectOldVersion"

\* ------------------------------------------------- claims on the watermark
\* the device holds the file as the server's table has it
Received(c, id) ==
    IF files[id].deleted THEN id \notin DOMAIN local[c]
    ELSE id \in DOMAIN local[c] /\ local[c][id] = FromServer(files[id], docs[id])

\* C36 as stated: every committed mutation of a file is returned by a later
\* get_updates(since) of a device whose since is the largest metadata_version
\* it has received: a file the device does not hold as committed is among the
\* rows get_updates selects for the device's watermark.
NoUpdateMissed ==
    \A c \in Clients :
        {id \in DOMAIN files : ~Received(c, id)}
            \subseteq get_updates(files, Owner, watermark[c])

\* ------------------------------------------------ server: index_db::create_file
MaxIndexCalls == 4

\* generate_version(client): an error, or a version
Generated == {Err("VersionGeneration")} \cup {Ok(v) : v \in 1 .. 2}

IndexIds == {1, 2}
IndexPaths == {1, 2}

\* the INSERT violates pk_files or unique_file_path
IndexIdTaken(table, file_id) == file_id \in DOMAIN table
IndexPathTaken(table, file_path) == \E x \in DOMAIN table : table[x].file_path = file_path

\* create_file that writes the version as file_metadata_version alone
index_db_create_file_metadata_only(table, generated, refused, file_id, username, file_name, file_path) ==
    IF ~generated.ok THEN [table |-> table, res |-> Err("VersionGeneration")]
    ELSE IF IndexIdTaken(table, file_id) THEN [table |-> table, res |-> Err("FileIdTaken")]
    ELSE IF IndexPathTaken(table, file_path)
    THEN [table |-> table, res |-> Err("FilePathTaken")]
    ELSE IF refused THEN [table |-> table, res |-> Err("Uninterpreted")]
    ELSE [table |-> With(table, file_id,
                         [file_name |-> file_name, file_path |-> file_path,
                          username |-> username, file_content_version |-> 0,
                          file_metadata_version |-> generated.val, deleted |-> FALSE]),
          res |-> Ok(generated.val)]

\* create_file: generate_version(client)?, then the INSERT with the version as
\* file_content_version and file_metadata_version and deleted = false; the
\* statement may fail for a reason From<PostgresError> does not interpret
index_db_create_file(table, generated, refused, file_id, username, file_name, file_path) ==
    IF ~generated.ok THEN [table |-> table, res |-> Err("VersionGeneration")]
    ELSE IF IndexIdTaken(table, file_id) THEN [table |-> table, res |-> Err("FileIdTaken")]
    ELSE IF IndexPathTaken(table, file_path)
    THEN [table |-> table, res |-> Err("FilePathTaken")]
    ELSE IF refused THEN [table |-> table, res |-> Err("Uninterpreted")]
    ELSE [table |-> With(table, file_id,
                         [file_name |-> file_name, file_path |-> file_path,
                          username |-> username,
                          file_content_version |-> generated.val,
                          file_metadata_version |-> generated.val, deleted |-> FALSE]),
          res |-> Ok(generated.val)]

IndexFrame ==
    UNCHANGED <<docs, local, watermark, binaryDocs, ops, lastSync, run, note, accounts, call,
                session, db, txn>>

IndexCreateFile ==
    \E file_id \in IndexIds, file_path \in IndexPaths, g \in Generated, refused \in BOOLEAN :
        LET r == index_db_create_file(index_db, g, refused, file_id, Owner, PlainName(file_id),
                                      file_path)
        IN /\ Len(hist) < MaxIndexCalls
           /\ index_db' = r.table
           /\ hist' = Append(hist, Made("index_db::create_file", file_id, g, r.res))
           /\ UNCHANGED <<files, clock>>
           /\ IndexFrame

\* create_file of file_index_repo for a document: Ok(version) or the FileError
FileIndexCreateFile ==
    \E id \in CallIds, p \in CallParents, nm \in CallNames, u \in Usernames :
        LET r == create_file(files, accounts, clock, id, p, FALSE, nm, u)
        IN /\ Len(hist) < MaxIndexCalls
           /\ files' = r.rows
           /\ hist' = Append(hist, Made("file_index_repo::create_file", id, Unit,
                                        IF r.res = "Ok" THEN Ok(r.ver) ELSE Err(r.res)))
           /\ UNCHANGED <<clock, index_db>>
           /\ IndexFrame

IndexNext == IndexCreateFile \/ FileIndexCreateFile \/ Tick

IndexSpec == RepoInit /\ [][IndexNext]_vars

\* ------------------------------------------------------ claims on create_file
\* the table gained the row id and nothing else changed
InsertedOne(old, new, id) ==
    /\ id \notin DOMAIN old
    /\ DOMAIN new = DOMAIN old \cup {id}
    /\ \A x \in DOMAIN old : new[x] = old[x]

\* C39: a successful create_file inserts exactly one row, not deleted, whose
\* content version and metadata version both equal the version returned; a
\* create_file that fails inserts no row, whether or not a version was
\* generated for it.
CreateFileInsertsOneRow ==
    [][hist' # hist =>
          /\ Call.op = "index_db::create_file" =>
                 IF Call.res.ok
                 THEN /\ InsertedOne(index_db, index_db', Call.key)
                      /\ ~index_db'[Call.key].deleted
                      /\ index_db'[Call.key].file_content_version = Call.res.val
                      /\ index_db'[Call.key].file_metadata_version = Call.res.val
                 ELSE index_db' = index_db
          /\ Call.op = "file_index_repo::create_file" =>
                 IF Call.res.ok
                 THEN /\ InsertedOne(files, files', Call.key)
                      /\ ~files'[Call.key].deleted
                      /\ files'[Call.key].content_version = Call.res.val
                      /\ files'[Call.key].metadata_version = Call.res.val
                 ELSE files' = files]_vars

\* index_db's create_file has inserted a row and has failed on a taken id or
\* path after its version was generated, and file_index_repo's create_file has
\* inserted a row and has failed
CreateFileInsertsOneRowWitness ==
    /\ \E i \in DOMAIN hist : hist[i].op = "index_db::create_file" /\ hist[i].res.ok
    /\ \E i \in DOMAIN hist :
           /\ hist[i].op = "index_db::create_file"
           /\ hist[i].arg.ok
           /\ hist[i].res \in {Err("FileIdTaken"), Err("FilePathTaken")}
    /\ \E i \in DOMAIN hist : hist[i].op = "file_index_repo::create_file" /\ hist[i].res.ok
    /\ \E i \in DOMAIN hist : hist[i].op = "file_index_repo::create_file" /\ ~hist[i].res.ok

\* ------------------------------------------------- claims on the file owners
\* the metadata get_updates returns to a user for a watermark
Updates(rows, username, metadata_version) ==
    [id \in get_updates(rows, username, metadata_version) |-> rows[id]]

Watermarks == 0 .. DocId + 2 + MaxTicks

\* the user whose file a call is issued for: the owner a create_file names,
\* the owner of the row the other calls address
IssuedFor(rows, req) ==
    IF req.op = "create_file" THEN {req.owner}
    ELSE IF req.op = "new_account" THEN {}
    ELSE {rows[id].owner : id \in {req.id} \cap DOMAIN rows}

\* C37: get_updates(username, v) returns only files whose owner is username;
\* no call changes the owner of a file after its create_file; and a call
\* issued for one user's file leaves what get_updates returns to every other
\* user, for every watermark, as it was.
OwnershipIsolation ==
    /\ [](\A u \in Usernames, v \in Watermarks :
              \A id \in get_updates(files, u, v) : files[id].owner = u)
    /\ [][/\ \A id \in DOMAIN files :
                  id \in DOMAIN files' /\ files'[id].owner = files[id].owner
           /\ call' # call /\ files' # files =>
                  \A a \in IssuedFor(files, call'.req) :
                      \A u \in Usernames \ {a}, v \in Watermarks :
                          Updates(files', u, v) = Updates(files, u, v)]_vars

\* both users own a live file, and a call changed a file of each of them
OwnershipIsolationWitness ==
    /\ \A u \in Usernames : \E id \in DOMAIN files : files[id].owner = u /\ ~files[id].deleted
    /\ call.res = "Ok"
    /\ call.req.op \in {"rename_file", "move_file", "delete_file",
                        "change_document_content_version"}
    /\ \E id \in DOMAIN files : id # call.req.id /\ files[id].owner # files[call.req.id].owner

====
